---- MODULE Spec2Model ----
(***************************************************************************)
(* Model of the storage layer of insights-results-aggregator               *)
(* (storage/storage.go): the report write path WriteReportForCluster with  *)
(* its staleness cache clustersLastChecked, the transaction it runs in,    *)
(* the two SQL dialects of the upsert statements, Init, the report reads   *)
(* and deletions, the latest Kafka offset, the consumer error log, and the *)
(* rule toggles of storage/rule_toggle.go.                                 *)
(*                                                                         *)
(* The database is modelled at the isolation the code asks for: Begin()    *)
(* is called without options (storage.go:690), i.e. READ COMMITTED on      *)
(* PostgreSQL.  A statement is atomic, reads the committed tables overlaid *)
(* with the transaction's own writes, and waits for a row another open     *)
(* transaction has written.  Every statement may also fail (driver error,  *)
(* lock timeout, deadlock victim), which covers the stricter locking of    *)
(* SQLite.                                                                 *)
(***************************************************************************)
EXTENDS Integers, Sequences, FiniteSets, TLC

VARIABLES
    dbDriverType,        \* DBStorage.dbDriverType
    clustersLastChecked, \* DBStorage.clustersLastChecked: cluster -> (exists, time)
    report,              \* committed rows of table report
    rule_hit,            \* committed rows of table rule_hit
    clock,               \* number of time.Now() readings taken so far
    pc,                  \* position of each caller
    args,                \* arguments of the call each caller is in
    err,                 \* the err variable of the call
    tx,                  \* the open transaction of the call (write set)
    idx,                 \* loop index of updateReport's "for _, rule"
    reportedAtTime,      \* updateReport's reportedAtTime
    initRows,            \* Init: rows scanned and not yet stored in the map
    ncalls,              \* calls started so far
    restarts,            \* storage instances created after the first
    started,             \* this instance has run Init or taken a call
    fault,               \* ghost: the step at which a database fault hit the call
    pre,                 \* ghost: tables and cache when the call started
    hist,                \* ghost: the calls in the order they returned
    lastDeleted,         \* ghost: the report deletion made since the last call
    cluster_rule_toggle, \* rows of table cluster_rule_toggle
    tpc,                 \* position of each caller of ToggleRuleForCluster
    targs,               \* arguments and locals of the toggle call in progress
    ntoggles,            \* toggle operations started so far
    thist,               \* ghost: the toggle statements in the order they ran
    initErr,             \* ghost: what Init returned, until the next call is taken
    consumer_error,      \* rows of table consumer_error
    cresult,             \* ghost: the last WriteConsumerError call and its result
    nerrors,             \* WriteConsumerError calls made so far
    lastBatch,           \* ghost: the last ReadReportsForClusters call and its result
    stores,              \* one store per dialect, given the same calls
    sresult,             \* ghost: the last call given to both stores, and its results
    nwrites,             \* calls given to both stores so far
    tqueries,            \* ghost: the last two queries of GetTogglesForRules
    rpc,                 \* position of the caller of ReadReportForCluster
    rargs,               \* arguments and locals of the read in progress
    rres                 \* ghost: what the last read returned

\* the variables of the rule toggle store (rule_toggle.go)
toggleVars == <<cluster_rule_toggle, tpc, targs, ntoggles, thist>>

\* the variables of the report store (storage.go) but the clock
storeVars == <<dbDriverType, clustersLastChecked, report, rule_hit, pc, args,
               err, tx, idx, reportedAtTime, initRows, ncalls, restarts, started,
               fault, pre, hist, lastDeleted, initErr>>

\* the variables of the consumer error log
consumerVars == <<consumer_error, cresult, nerrors>>

\* the variables of the comparison of the two dialects
dialectVars == <<stores, sresult, nwrites>>

\* the variables the report write path and the rule toggles leave alone
\* the variables of the reader of reports
readVars == <<rpc, rargs, rres>>

otherVars == <<consumerVars, lastBatch, dialectVars, tqueries, readVars>>

vars == <<storeVars, clock, toggleVars, otherVars>>

----------------------------------------------------------------------------
(* Bounds *)

MaxTime == 2

MaxCalls == 2

MaxConcurrentCalls == 2

MaxRestarts == 1

MaxToggles == 3

MaxErrors == 3

MaxWrites == 2

(* Input domains *)

Procs == {1, 2}

Orgs == {1, 2}

Clusters == {"c1", "c2"}

Times == 1 .. MaxTime

\* (report, kafkaOffset) as they arrive together in one consumed message
Payloads == {[report |-> "b1", kafkaOffset |-> 1], [report |-> "b2", kafkaOffset |-> 2]}

ReportItem(m, e, d) == [Module |-> m, ErrorKey |-> e, TemplateData |-> d]

HitLists ==
    { <<>>,
      <<ReportItem("r1", "e1", "d1")>>,
      <<ReportItem("r2", "e1", "d1")>>,
      <<ReportItem("r1", "e1", "d1"), ReportItem("r1", "e1", "d2")>> }

DBDriverSQLite3 == "sqlite3"

DBDriverPostgres == "postgres"

DBDriverGeneral == "general"

None == "none"

NoSnapshot ==
    [report |-> {}, rule_hit |-> {},
     cache |-> [c \in Clusters |-> [exists |-> FALSE, time |-> 0]],
     instance |-> 0, taken |-> FALSE]

\* no report was deleted since the last call
NoDelete == [kind |-> None, org |-> 0, cluster |-> None]

NoTx == [open |-> FALSE, rhDel |-> {}, rhIns |-> {}, repDel |-> {}, repIns |-> {}]

OpenTx == [NoTx EXCEPT !.open = TRUE]

----------------------------------------------------------------------------
(* Tables, keys and the view of a transaction *)

RuleHitKey(r) == <<r.org_id, r.cluster_id, r.rule_fqdn, r.error_key>>

\* rows of table report / rule_hit as transaction p sees them
ReportView(p) == (report \ tx[p].repDel) \cup tx[p].repIns

RuleHitView(p) == (rule_hit \ tx[p].rhDel) \cup tx[p].rhIns

\* clusters / rule-hit keys some other open transaction has written
ReportLocked(p) ==
    UNION { {r.cluster : r \in tx[q].repDel \cup tx[q].repIns} : q \in Procs \ {p} }

RuleHitLocked(p) ==
    UNION { {RuleHitKey(r) : r \in tx[q].rhDel \cup tx[q].rhIns} : q \in Procs \ {p} }

\* the write set after a statement changed the view from old to new
WriteDel(del, old, new) == del \cup (old \ new)

WriteIns(ins, old, new) == (ins \ (old \ new)) \cup (new \ old)

----------------------------------------------------------------------------
(* Dialect: the two upsert statements *)

ReportRow(a, reportedAt) ==
    [org_id |-> a.orgID, cluster |-> a.clusterName, report |-> a.report,
     reported_at |-> reportedAt, last_checked_at |-> a.lastCheckedTime,
     kafka_offset |-> a.kafkaOffset]

\* a faulty variant: the statement adds a row and replaces none
getReportUpsertQuery_InsertOnly(driver, rows, new) == rows \cup {new}

\* a faulty variant: the conflict update leaves org_id out of its SET list
getReportUpsertQuery_KeepsOrg(driver, rows, new) ==
    IF driver = DBDriverSQLite3
    THEN { r \in rows : ~(r.cluster = new.cluster) } \cup {new}
    ELSE IF \E r \in rows : r.cluster = new.cluster
         THEN { IF r.cluster = new.cluster
                THEN [r EXCEPT !.report = new.report,
                               !.reported_at = new.reported_at,
                               !.last_checked_at = new.last_checked_at,
                               !.kafka_offset = new.kafka_offset]
                ELSE r : r \in rows }
         ELSE rows \cup {new}

\* INSERT OR REPLACE: rows that collide on PRIMARY KEY(org_id, cluster) or on
\* UNIQUE(cluster) are deleted, then the row is inserted.
\* ON CONFLICT (cluster) DO UPDATE SET org_id, report, reported_at,
\* last_checked_at, kafka_offset: the row of the cluster gets all five columns.
getReportUpsertQuery(driver, rows, new) ==
    IF driver = DBDriverSQLite3
    THEN { r \in rows : ~(r.cluster = new.cluster) } \cup {new}
    ELSE IF \E r \in rows : r.cluster = new.cluster
         THEN { IF r.cluster = new.cluster
                THEN [r EXCEPT !.org_id = new.org_id, !.report = new.report,
                               !.reported_at = new.reported_at,
                               !.last_checked_at = new.last_checked_at,
                               !.kafka_offset = new.kafka_offset]
                ELSE r : r \in rows }
         ELSE rows \cup {new}

RuleHitRow(a, rule) ==
    [org_id |-> a.orgID, cluster_id |-> a.clusterName, rule_fqdn |-> rule.Module,
     error_key |-> rule.ErrorKey, template_data |-> rule.TemplateData]

\* INSERT OR REPLACE on the key (org_id, cluster_id, rule_fqdn, error_key);
\* ON CONFLICT (...) DO UPDATE SET template_data = $4, and $4 is error_key.
getRuleHitUpsertQuery(driver, rows, new) ==
    IF driver = DBDriverSQLite3
    THEN { r \in rows : RuleHitKey(r) # RuleHitKey(new) } \cup {new}
    ELSE IF \E r \in rows : RuleHitKey(r) = RuleHitKey(new)
         THEN { IF RuleHitKey(r) = RuleHitKey(new)
                THEN [r EXCEPT !.template_data = new.error_key]
                ELSE r : r \in rows }
         ELSE rows \cup {new}

----------------------------------------------------------------------------
(* Staleness cache *)

\* NewFromConnection, storage.go:180: an empty map
EmptyCache == [c \in Clusters |-> [exists |-> FALSE, time |-> 0]]

CacheHas(c) == clustersLastChecked[c].exists

CachePut(m, c, t) == [m EXCEPT ![c] = [exists |-> TRUE, time |-> t]]

\* a faulty variant: a report as old as the cached one is let through
IsOldReport_OlderOnly(c, t) == CacheHas(c) /\ t < clustersLastChecked[c].time

\* storage.go:681: exists && !lastCheckedTime.After(oldLastChecked)
IsOldReport(c, t) == CacheHas(c) /\ ~(t > clustersLastChecked[c].time)

\* a faulty variant: the comparison of the query is the other way round
MoreRecentInDB_Reversed(rows, a) ==
    \E r \in rows : /\ r.org_id = a.orgID
                    /\ r.cluster = a.clusterName
                    /\ r.last_checked_at < a.lastCheckedTime

\* storage.go:698-700: a row with the org and the cluster and last_checked_at > $3
MoreRecentInDB(rows, a) ==
    \E r \in rows : /\ r.org_id = a.orgID
                    /\ r.cluster = a.clusterName
                    /\ r.last_checked_at > a.lastCheckedTime

\* ReadReportsForClusters was not called yet
NoBatch == [made |-> FALSE, clusterNames |-> <<>>, inClausule |-> <<>>,
            args |-> <<>>, executed |-> FALSE, err |-> "nil", reports |-> <<>>]

\* no read is in progress
NoRead == [orgID |-> 0, clusterName |-> None, lastChecked |-> 0]

\* no read has returned yet
NoResult == [made |-> FALSE, orgID |-> 0, clusterName |-> None, err |-> "nil",
             fault |-> None, report |-> {}, lastChecked |-> [rfc3339 |-> 0]]

\* no call was given to the two stores yet
NoWrite == [args |-> None, err |-> [d \in {DBDriverSQLite3, DBDriverPostgres} |-> "nil"]]

\* a store nothing was written to, with the map of NewFromConnection
EmptyStore == [report |-> {}, rule_hit |-> {}, clustersLastChecked |-> EmptyCache]

----------------------------------------------------------------------------
Init ==
    /\ dbDriverType \in {DBDriverSQLite3, DBDriverPostgres, DBDriverGeneral}
    /\ clustersLastChecked = EmptyCache
    /\ report = {}
    /\ rule_hit = {}
    /\ clock = 0
    /\ pc = [p \in Procs |-> "idle"]
    /\ args = [p \in Procs |-> None]
    /\ err = [p \in Procs |-> "nil"]
    /\ tx = [p \in Procs |-> NoTx]
    /\ idx = [p \in Procs |-> 0]
    /\ reportedAtTime = [p \in Procs |-> 0]
    /\ initRows = {}
    /\ ncalls = 0
    /\ restarts = 0
    /\ started = FALSE
    /\ fault = [p \in Procs |-> None]
    /\ pre = [p \in Procs |-> NoSnapshot]
    /\ hist = <<>>
    /\ lastDeleted = NoDelete
    /\ cluster_rule_toggle = {}
    /\ tpc = [p \in Procs |-> "idle"]
    /\ targs = [p \in Procs |-> None]
    /\ ntoggles = 0
    /\ thist = <<>>
    /\ initErr = None
    /\ consumer_error = {}
    /\ cresult = None
    /\ nerrors = 0
    /\ lastBatch = NoBatch
    /\ stores = [d \in {DBDriverSQLite3, DBDriverPostgres} |-> EmptyStore]
    /\ sresult = NoWrite
    /\ nwrites = 0
    /\ tqueries = <<>>
    /\ rpc = "idle"
    /\ rargs = NoRead
    /\ rres = NoResult

----------------------------------------------------------------------------
(* WriteReportForCluster, storage.go:671-730, one action per step *)

Snapshot == [report |-> report, rule_hit |-> rule_hit,
             cache |-> clustersLastChecked, instance |-> restarts,
             taken |-> TRUE]

CallArgs(o, c, pl, h, t) ==
    [orgID |-> o, clusterName |-> c, report |-> pl.report, rules |-> h,
     lastCheckedTime |-> t, kafkaOffset |-> pl.kafkaOffset]

\* the call returns: its record is appended to the history
Returned(p, e, f, outcome) ==
    Append(hist, [proc |-> p, args |-> args[p], err |-> e, fault |-> f,
                  outcome |-> outcome, reportedAt |-> reportedAtTime[p]])

\* a caller enters WriteReportForCluster with arguments from the sets of I
Call(p, I, limit, snap) ==
    /\ pc[p] = "idle"
    /\ ncalls < limit
    /\ \E o \in I.orgs, c \in I.clusters, pl \in I.payloads, h \in I.hits,
          t \in I.times :
           args' = [args EXCEPT ![p] = CallArgs(o, c, pl, h, t)]
    /\ pc' = [pc EXCEPT ![p] = "cacheCheck"]
    /\ err' = [err EXCEPT ![p] = "nil"]
    /\ fault' = [fault EXCEPT ![p] = None]
    /\ idx' = [idx EXCEPT ![p] = 0]
    /\ pre' = [pre EXCEPT ![p] = IF snap THEN Snapshot ELSE NoSnapshot]
    /\ ncalls' = ncalls + 1
    /\ started' = TRUE
    /\ reportedAtTime' = [reportedAtTime EXCEPT ![p] = 0]
    /\ UNCHANGED <<toggleVars, otherVars>>
    /\ lastDeleted' = NoDelete
    /\ initErr' = None
    /\ UNCHANGED <<dbDriverType, clustersLastChecked, report, rule_hit, clock,
                   tx, initRows, restarts, hist>>

\* storage.go:681-683: the fast path on the cache
CacheCheck(p) ==
    /\ pc[p] = "cacheCheck"
    /\ IF IsOldReport(args[p].clusterName, args[p].lastCheckedTime)
       THEN /\ pc' = [pc EXCEPT ![p] = "idle"]
            /\ err' = [err EXCEPT ![p] = "ErrOldReport"]
            /\ hist' = Returned(p, "ErrOldReport", None, "stale")
       ELSE /\ pc' = [pc EXCEPT ![p] = "begin"]
            /\ UNCHANGED <<err, hist>>
    /\ UNCHANGED <<toggleVars, otherVars, lastDeleted, initErr>>
    /\ UNCHANGED <<dbDriverType, clustersLastChecked, report, rule_hit, clock,
                   args, tx, idx, reportedAtTime, initRows, ncalls, restarts, started,
                   fault, pre>>

\* storage.go:685-687: the driver is neither SQLite nor PostgreSQL
UnsupportedDriver(p) ==
    /\ pc[p] = "begin"
    /\ dbDriverType # DBDriverSQLite3 /\ dbDriverType # DBDriverPostgres
    /\ pc' = [pc EXCEPT ![p] = "idle"]
    /\ err' = [err EXCEPT ![p] = "unsupported"]
    /\ hist' = Returned(p, "unsupported", None, "unsupported")
    /\ UNCHANGED <<toggleVars, otherVars, lastDeleted, initErr>>
    /\ UNCHANGED <<dbDriverType, clustersLastChecked, report, rule_hit, clock,
                   args, tx, idx, reportedAtTime, initRows, ncalls, restarts, started,
                   fault, pre>>

\* a faulty variant: the transaction is begun whatever the driver is
Begin_AnyDriver(p) ==
    /\ pc[p] = "begin"
    /\ tx' = [tx EXCEPT ![p] = OpenTx]
    /\ pc' = [pc EXCEPT ![p] = "recheck"]
    /\ UNCHANGED <<toggleVars, otherVars, lastDeleted, initErr>>
    /\ UNCHANGED <<dbDriverType, clustersLastChecked, report, rule_hit, clock,
                   args, err, idx, reportedAtTime, initRows, ncalls, restarts, started,
                   fault, pre, hist>>

\* storage.go:690: connection.Begin() succeeds
Begin(p) ==
    /\ pc[p] = "begin"
    /\ dbDriverType \in {DBDriverSQLite3, DBDriverPostgres}
    /\ tx' = [tx EXCEPT ![p] = OpenTx]
    /\ pc' = [pc EXCEPT ![p] = "recheck"]
    /\ UNCHANGED <<toggleVars, otherVars, lastDeleted, initErr>>
    /\ UNCHANGED <<dbDriverType, clustersLastChecked, report, rule_hit, clock,
                   args, err, idx, reportedAtTime, initRows, ncalls, restarts, started,
                   fault, pre, hist>>

\* storage.go:691-693: connection.Begin() fails, the error is returned
BeginFails(p) ==
    /\ pc[p] = "begin"
    /\ dbDriverType \in {DBDriverSQLite3, DBDriverPostgres}
    /\ pc' = [pc EXCEPT ![p] = "idle"]
    /\ err' = [err EXCEPT ![p] = "dberror"]
    /\ fault' = [fault EXCEPT ![p] = "begin"]
    /\ hist' = Returned(p, "dberror", "begin", "beginFailed")
    /\ UNCHANGED <<toggleVars, otherVars, lastDeleted, initErr>>
    /\ UNCHANGED <<dbDriverType, clustersLastChecked, report, rule_hit, clock,
                   args, tx, idx, reportedAtTime, initRows, ncalls, restarts, started,
                   pre>>

\* storage.go:698-714: the re-check inside the transaction; a more recent
\* report makes the closure return nil, otherwise updateReport is entered
Recheck(p) ==
    /\ pc[p] = "recheck"
    /\ pc' = [pc EXCEPT ![p] = IF MoreRecentInDB(ReportView(p), args[p])
                                THEN "finish" ELSE "delete"]
    /\ UNCHANGED <<toggleVars, otherVars, lastDeleted, initErr>>
    /\ UNCHANGED <<dbDriverType, clustersLastChecked, report, rule_hit, clock,
                   args, err, tx, idx, reportedAtTime, initRows, ncalls,
                   restarts, started, fault, pre, hist>>

\* a statement of the closure fails (storage.go:702-705, 643-646, 653-658,
\* 662-665): the closure returns the error
StatementFails(p) ==
    /\ pc[p] \in {"recheck", "delete", "insert", "upsert"}
    /\ err' = [err EXCEPT ![p] = "dberror"]
    /\ fault' = [fault EXCEPT ![p] = pc[p]]
    /\ pc' = [pc EXCEPT ![p] = "finish"]
    /\ UNCHANGED <<toggleVars, otherVars, lastDeleted, initErr>>
    /\ UNCHANGED <<dbDriverType, clustersLastChecked, report, rule_hit, clock,
                   args, tx, idx, reportedAtTime, initRows, ncalls, restarts, started,
                   pre, hist>>

\* a faulty variant: the delete removes nothing
DeleteRuleHits_KeepsAll(rows, a) == rows

\* storage.go:641: DELETE FROM rule_hit WHERE org_id = $1 AND cluster_id = $2
DeleteRuleHits(rows, a) ==
    { r \in rows : ~(r.org_id = a.orgID /\ r.cluster_id = a.clusterName) }

\* updateReport, storage.go:641-649: the delete, then reportedAtTime := Now()
Delete(p) ==
    /\ pc[p] = "delete"
    /\ LET old == RuleHitView(p)
           new == DeleteRuleHits(old, args[p])
       IN  /\ {RuleHitKey(r) : r \in old \ new} \cap RuleHitLocked(p) = {}
           /\ tx' = [tx EXCEPT ![p].rhDel = WriteDel(@, old, new),
                               ![p].rhIns = WriteIns(@, old, new)]
    /\ clock' = clock + 1
    /\ reportedAtTime' = [reportedAtTime EXCEPT ![p] = clock + 1]
    /\ idx' = [idx EXCEPT ![p] = 1]
    /\ pc' = [pc EXCEPT ![p] = IF Len(args[p].rules) = 0 THEN "upsert" ELSE "insert"]
    /\ UNCHANGED <<toggleVars, otherVars, lastDeleted, initErr>>
    /\ UNCHANGED <<dbDriverType, clustersLastChecked, report, rule_hit, args,
                   err, initRows, ncalls, restarts, started, fault, pre, hist>>

\* updateReport, storage.go:651-659: one pass of the loop over rules
Insert(p) ==
    /\ pc[p] = "insert"
    /\ LET old == RuleHitView(p)
           row == RuleHitRow(args[p], args[p].rules[idx[p]])
           new == getRuleHitUpsertQuery(dbDriverType, old, row)
       IN  /\ RuleHitKey(row) \notin RuleHitLocked(p)
           /\ tx' = [tx EXCEPT ![p].rhDel = WriteDel(@, old, new),
                               ![p].rhIns = WriteIns(@, old, new)]
    /\ idx' = [idx EXCEPT ![p] = @ + 1]
    /\ pc' = [pc EXCEPT ![p] = IF idx[p] = Len(args[p].rules) THEN "upsert" ELSE "insert"]
    /\ UNCHANGED <<toggleVars, otherVars, lastDeleted, initErr>>
    /\ UNCHANGED <<dbDriverType, clustersLastChecked, report, rule_hit, clock,
                   args, err, reportedAtTime, initRows, ncalls, restarts, started,
                   fault, pre, hist>>

\* updateReport, storage.go:661-667: the report row
Upsert(p) ==
    /\ pc[p] = "upsert"
    /\ LET old == ReportView(p)
           row == ReportRow(args[p], reportedAtTime[p])
           new == getReportUpsertQuery(dbDriverType, old, row)
       IN  /\ row.cluster \notin ReportLocked(p)
           /\ tx' = [tx EXCEPT ![p].repDel = WriteDel(@, old, new),
                               ![p].repIns = WriteIns(@, old, new)]
    /\ pc' = [pc EXCEPT ![p] = "cacheUpdate"]
    /\ UNCHANGED <<toggleVars, otherVars, lastDeleted, initErr>>
    /\ UNCHANGED <<dbDriverType, clustersLastChecked, report, rule_hit, clock,
                   args, err, idx, reportedAtTime, initRows, ncalls, restarts, started,
                   fault, pre, hist>>

\* storage.go:721-724: the cache entry is written inside the closure, after
\* updateReport returned nil and before finishTransaction
CacheUpdate(p) ==
    /\ pc[p] = "cacheUpdate"
    /\ clustersLastChecked' =
           CachePut(clustersLastChecked, args[p].clusterName, args[p].lastCheckedTime)
    /\ pc' = [pc EXCEPT ![p] = "finish"]
    /\ UNCHANGED <<toggleVars, otherVars, lastDeleted, initErr>>
    /\ UNCHANGED <<dbDriverType, report, rule_hit, clock, args, err, tx, idx,
                   reportedAtTime, initRows, ncalls, restarts, started, fault, pre, hist>>

\* the tables after the write set of a transaction is applied
Committed(rows, del, ins) == (rows \ del) \cup ins

\* what the call did, for the history
Wrote(p) == tx[p].repIns # {}

\* finishTransaction with err = nil, storage.go:739-740: Commit succeeds;
\* WriteReportForCluster returns err (nil), storage.go:729
Commit(p) ==
    /\ pc[p] = "finish"
    /\ err[p] = "nil"
    /\ report' = Committed(report, tx[p].repDel, tx[p].repIns)
    /\ rule_hit' = Committed(rule_hit, tx[p].rhDel, tx[p].rhIns)
    /\ tx' = [tx EXCEPT ![p] = NoTx]
    /\ pc' = [pc EXCEPT ![p] = "idle"]
    /\ hist' = Returned(p, "nil", fault[p], IF Wrote(p) THEN "committed" ELSE "noop")
    /\ UNCHANGED <<toggleVars, otherVars, lastDeleted, initErr>>
    /\ UNCHANGED <<dbDriverType, clustersLastChecked, clock, args, err, idx,
                   reportedAtTime, initRows, ncalls, restarts, started, fault, pre>>

\* finishTransaction with err = nil, storage.go:740-743: Commit fails, the
\* error is logged only; WriteReportForCluster still returns err (nil)
CommitFails(p) ==
    /\ pc[p] = "finish"
    /\ err[p] = "nil"
    /\ tx' = [tx EXCEPT ![p] = NoTx]
    /\ pc' = [pc EXCEPT ![p] = "idle"]
    /\ fault' = [fault EXCEPT ![p] = "commit"]
    /\ hist' = Returned(p, "nil", "commit", "commitFailed")
    /\ UNCHANGED <<toggleVars, otherVars, lastDeleted, initErr>>
    /\ UNCHANGED <<dbDriverType, clustersLastChecked, report, rule_hit, clock,
                   args, err, idx, reportedAtTime, initRows, ncalls, restarts, started,
                   pre>>

\* a faulty variant: the transaction is committed although the closure failed
Rollback_Commits(p) ==
    /\ pc[p] = "finish"
    /\ err[p] # "nil"
    /\ report' = Committed(report, tx[p].repDel, tx[p].repIns)
    /\ rule_hit' = Committed(rule_hit, tx[p].rhDel, tx[p].rhIns)
    /\ tx' = [tx EXCEPT ![p] = NoTx]
    /\ pc' = [pc EXCEPT ![p] = "idle"]
    /\ hist' = Returned(p, err[p], fault[p], "rolledBack")
    /\ UNCHANGED <<toggleVars, otherVars, lastDeleted, initErr>>
    /\ UNCHANGED <<dbDriverType, clustersLastChecked, clock, args, err, idx,
                   reportedAtTime, initRows, ncalls, restarts, started, fault, pre>>

\* a faulty variant: the call returns its error without finishing the
\* transaction
Rollback_LeavesOpen(p) ==
    /\ pc[p] = "finish"
    /\ err[p] # "nil"
    /\ pc' = [pc EXCEPT ![p] = "idle"]
    /\ hist' = Returned(p, err[p], fault[p], "rolledBack")
    /\ UNCHANGED <<toggleVars, otherVars, lastDeleted, initErr>>
    /\ UNCHANGED <<dbDriverType, clustersLastChecked, report, rule_hit, clock,
                   args, err, tx, idx, reportedAtTime, initRows, ncalls, restarts,
                   started, fault, pre>>

\* finishTransaction with err # nil, storage.go:734-738: Rollback (a failing
\* Rollback is logged and the server drops the transaction all the same);
\* WriteReportForCluster returns the error
Rollback(p) ==
    /\ pc[p] = "finish"
    /\ err[p] # "nil"
    /\ tx' = [tx EXCEPT ![p] = NoTx]
    /\ pc' = [pc EXCEPT ![p] = "idle"]
    /\ hist' = Returned(p, err[p], fault[p], "rolledBack")
    /\ UNCHANGED <<toggleVars, otherVars, lastDeleted, initErr>>
    /\ UNCHANGED <<dbDriverType, clustersLastChecked, report, rule_hit, clock,
                   args, err, idx, reportedAtTime, initRows, ncalls, restarts, started,
                   fault, pre>>

WriteReportForCluster(p) ==
    \/ CacheCheck(p)
    \/ UnsupportedDriver(p)
    \/ Begin(p)
    \/ BeginFails(p)
    \/ Recheck(p)
    \/ StatementFails(p)
    \/ Delete(p)
    \/ Insert(p)
    \/ Upsert(p)
    \/ CacheUpdate(p)
    \/ Commit(p)
    \/ CommitFails(p)
    \/ Rollback(p)

----------------------------------------------------------------------------
(* The map is not guarded: storage.go:147-152 declares no lock, and lines  *)
(* 681 and 721 read and write it from whatever goroutine makes the call.   *)

InCacheRead(p) == pc[p] = "cacheCheck"

InCacheWrite(p) == pc[p] = "cacheUpdate"

\* two callers are at the map at once and one of them writes it
CacheRace ==
    \E p, q \in Procs :
        p # q /\ InCacheWrite(p) /\ (InCacheRead(q) \/ InCacheWrite(q))

InFlight(p) == pc[p] # "idle"

CrashRecord(p) ==
    IF InFlight(p)
    THEN << [proc |-> p, args |-> args[p], err |-> "crashed", fault |-> "crash",
             outcome |-> "crashed", reportedAt |-> reportedAtTime[p]] >>
    ELSE << >>

\* One outcome of the race on a Go map, besides the two accesses happening in
\* either order: the runtime stops the process ("fatal error: concurrent map
\* writes").  No call in flight returns, the server drops the open
\* transactions, and the next instance starts with an empty map.
RaceCrash ==
    /\ CacheRace
    /\ pc' = [p \in Procs |-> "idle"]
    /\ tx' = [p \in Procs |-> NoTx]
    /\ hist' = hist \o CrashRecord(1) \o CrashRecord(2)
    /\ clustersLastChecked' = EmptyCache
    /\ started' = FALSE
    /\ initErr' = None
    /\ UNCHANGED <<toggleVars, otherVars, lastDeleted>>
    /\ UNCHANGED <<dbDriverType, report, rule_hit, clock, args, err, idx,
                   reportedAtTime, initRows, ncalls, restarts, fault, pre>>

----------------------------------------------------------------------------
(* NewFromConnection and Init *)

\* storage.go:176-182: another DBStorage on the same database, with an empty
\* map (a restarted service, or a second instance taking over)
NewFromConnection ==
    /\ \A p \in Procs : pc[p] = "idle"
    /\ initRows = {}
    /\ restarts < MaxRestarts
    /\ restarts' = restarts + 1
    /\ started' = FALSE
    /\ clustersLastChecked' = EmptyCache
    /\ initErr' = None
    /\ UNCHANGED <<toggleVars, otherVars, lastDeleted>>
    /\ UNCHANGED <<dbDriverType, report, rule_hit, clock, pc, args, err, tx,
                   idx, reportedAtTime, initRows, ncalls, fault, pre, hist>>

\* Init, storage.go:233-236, called once when the service starts, before it
\* takes calls: the scan query succeeds (a failing query returns the error and
\* changes nothing)
InitQuery ==
    /\ \A p \in Procs : pc[p] = "idle"
    /\ ~started
    /\ initRows = {}
    /\ started' = TRUE
    /\ initRows' = {<<r.cluster, r.last_checked_at>> : r \in report}
    /\ initErr' = "nil"
    /\ UNCHANGED <<toggleVars, otherVars, lastDeleted>>
    /\ UNCHANGED <<dbDriverType, clustersLastChecked, report, rule_hit, clock,
                   pc, args, err, tx, idx, reportedAtTime, ncalls, restarts,
                   fault, pre, hist>>

\* Init, storage.go:238-252: one pass of the loop over the rows
InitStore ==
    /\ \E row \in initRows :
          /\ clustersLastChecked' = CachePut(clustersLastChecked, row[1], row[2])
          /\ initRows' = initRows \ {row}
    /\ UNCHANGED <<toggleVars, otherVars, lastDeleted, initErr>>
    /\ UNCHANGED <<dbDriverType, report, rule_hit, clock, pc, args, err, tx,
                   idx, reportedAtTime, ncalls, restarts, started, fault, pre,
                   hist>>

\* Init, storage.go:233-236: the scan query fails and the error is returned
InitQueryFails ==
    /\ \A p \in Procs : pc[p] = "idle"
    /\ ~started
    /\ initRows = {}
    /\ started' = TRUE
    /\ initErr' = "dberror"
    /\ UNCHANGED <<toggleVars, otherVars, lastDeleted>>
    /\ UNCHANGED <<dbDriverType, clustersLastChecked, report, rule_hit, clock,
                   pc, args, err, tx, idx, reportedAtTime, initRows, ncalls,
                   restarts, fault, pre, hist>>

\* Init, storage.go:244-249: rows.Scan fails on a row; the rows are closed
\* and the error is returned
InitScanFails ==
    /\ initRows # {}
    /\ initRows' = {}
    /\ initErr' = "dberror"
    /\ UNCHANGED <<toggleVars, otherVars, lastDeleted>>
    /\ UNCHANGED <<dbDriverType, clustersLastChecked, report, rule_hit, clock,
                   pc, args, err, tx, idx, reportedAtTime, ncalls, restarts,
                   started, fault, pre, hist>>

\* Init, storage.go:238 and 257: rows.Next() returns false because the driver
\* failed to fetch the next row (connection lost, statement cancelled).  Next
\* closes the rows itself and keeps the error for rows.Err(), which Init does
\* not consult; the rows.Close() of line 257 finds the rows closed and
\* returns nil, and so does Init.
InitNextFails ==
    /\ initRows # {}
    /\ initRows' = {}
    /\ UNCHANGED <<toggleVars, otherVars, lastDeleted>>
    /\ UNCHANGED <<dbDriverType, clustersLastChecked, report, rule_hit, clock,
                   pc, args, err, tx, idx, reportedAtTime, ncalls, restarts,
                   started, fault, pre, hist, initErr>>

----------------------------------------------------------------------------
(* Deleting reports: one statement each, run on the connection outside any  *)
(* transaction.  A failing statement returns the error and changes nothing. *)

\* storage.go:758: DELETE FROM report WHERE org_id = $1
DeleteFromReportByOrg(rows, orgID) == { r \in rows : r.org_id # orgID }

\* storage.go:764: DELETE FROM report WHERE cluster = $1
DeleteFromReportByCluster(rows, clusterName) == { r \in rows : r.cluster # clusterName }

\* DeleteReportsForOrg, storage.go:757-760
DeleteReportsForOrg ==
    /\ \A p \in Procs : pc[p] = "idle"
    /\ initRows = {}
    /\ \E o \in Orgs :
          /\ report' = DeleteFromReportByOrg(report, o)
          /\ lastDeleted' = [kind |-> "org", org |-> o, cluster |-> None]
    /\ UNCHANGED <<toggleVars, otherVars, clock, initErr>>
    /\ UNCHANGED <<dbDriverType, clustersLastChecked, rule_hit, pc, args, err, tx,
                   idx, reportedAtTime, initRows, ncalls, restarts, started,
                   fault, pre, hist>>

\* DeleteReportsForCluster, storage.go:763-766
DeleteReportsForCluster ==
    /\ \A p \in Procs : pc[p] = "idle"
    /\ initRows = {}
    /\ \E c \in Clusters :
          /\ report' = DeleteFromReportByCluster(report, c)
          /\ lastDeleted' = [kind |-> "cluster", org |-> 0, cluster |-> c]
    /\ UNCHANGED <<toggleVars, otherVars, clock, initErr>>
    /\ UNCHANGED <<dbDriverType, clustersLastChecked, rule_hit, pc, args, err, tx,
                   idx, reportedAtTime, initRows, ncalls, restarts, started,
                   fault, pre, hist>>

----------------------------------------------------------------------------
(* Reading a report *)

\* json.Unmarshal into a RawMessage succeeds on well-formed JSON only
WellFormedJSON == {"d1", "d2"}

\* parseTemplateData, storage.go:358-369: the JSON message, or the raw bytes
parseTemplateData(templateData) ==
    [json |-> templateData \in WellFormedJSON, data |-> templateData]

\* parseRuleRows, storage.go:371-398
parseRuleRows(rows) ==
    { [Module |-> r.rule_fqdn, ErrorKey |-> r.error_key,
       TemplateData |-> parseTemplateData(r.template_data)] : r \in rows }

\* lastChecked.UTC().Format(time.RFC3339)
Timestamp(t) == [rfc3339 |-> t]

\* a faulty variant: the report row is looked up by the cluster alone
ReadReportForCluster_RowOfAnyOrg(orgID, clusterName) ==
    LET found == { r \in report : r.cluster = clusterName }
        hits  == { r \in rule_hit : r.org_id = orgID /\ r.cluster_id = clusterName }
    IN  IF found = {}
        THEN [err |-> "NotFound", report |-> {}, lastChecked |-> Timestamp(0)]
        ELSE [err |-> "nil", report |-> parseRuleRows(hits),
              lastChecked |-> Timestamp((CHOOSE r \in found : TRUE).last_checked_at)]

\* a faulty variant: the rule hits are selected by the cluster alone
ReadReportForCluster_HitsOfAnyOrg(orgID, clusterName) ==
    LET found == { r \in report : r.org_id = orgID /\ r.cluster = clusterName }
        hits  == { r \in rule_hit : r.cluster_id = clusterName }
    IN  IF found = {}
        THEN [err |-> "NotFound", report |-> {}, lastChecked |-> Timestamp(0)]
        ELSE [err |-> "nil", report |-> parseRuleRows(hits),
              lastChecked |-> Timestamp((CHOOSE r \in found : TRUE).last_checked_at)]

\* ReadReportForCluster, storage.go:505-532, on the committed tables
ReadReportForCluster(orgID, clusterName) ==
    LET found == { r \in report : r.org_id = orgID /\ r.cluster = clusterName }
        hits  == { r \in rule_hit : r.org_id = orgID /\ r.cluster_id = clusterName }
    IN  IF found = {}
        THEN [err |-> "NotFound", report |-> {}, lastChecked |-> Timestamp(0)]
        ELSE [err |-> "nil", report |-> parseRuleRows(hits),
              lastChecked |-> Timestamp((CHOOSE r \in found : TRUE).last_checked_at)]

\* a faulty variant: sql.ErrNoRows is not told apart from other errors
ReadReportForClusterByClusterName_NoRowsAsDBError(clusterName) ==
    LET found == { r \in report : r.cluster = clusterName }
        hits  == { r \in rule_hit : r.cluster_id = clusterName }
    IN  IF found = {}
        THEN [err |-> "dberror", report |-> {}, lastChecked |-> [empty |-> TRUE]]
        ELSE [err |-> "nil", report |-> parseRuleRows(hits),
              lastChecked |-> Timestamp((CHOOSE r \in found : TRUE).last_checked_at)]

\* storage.go:567: the empty Timestamp ""
EmptyTimestamp == [empty |-> TRUE]

\* ReadReportForClusterByClusterName, storage.go:554-585, on the committed
\* tables: both queries select by the cluster alone
ReadReportForClusterByClusterName(clusterName) ==
    LET found == { r \in report : r.cluster = clusterName }
        hits  == { r \in rule_hit : r.cluster_id = clusterName }
    IN  IF found = {}
        THEN [err |-> "NotFound", report |-> {}, lastChecked |-> EmptyTimestamp]
        ELSE [err |-> "nil", report |-> parseRuleRows(hits),
              lastChecked |-> Timestamp((CHOOSE r \in found : TRUE).last_checked_at)]

----------------------------------------------------------------------------
(* ReadReportForCluster step by step, storage.go:505-532: two queries on    *)
(* the connection, outside any transaction, each of which sees the tables   *)
(* as committed when it runs                                                *)

\* the read returns
ReadReturned(e, f, hits, lastChecked) ==
    [made |-> TRUE, orgID |-> rargs.orgID, clusterName |-> rargs.clusterName,
     err |-> e, fault |-> f, report |-> parseRuleRows(hits),
     lastChecked |-> Timestamp(lastChecked)]

\* storage.go:512-518: the query on report finds the row, or finds none and
\* sql.ErrNoRows is turned into the not-found error
ReadReport_QueryRow ==
    /\ rpc = "idle"
    /\ \E o \in Orgs, c \in Clusters :
          LET found == { r \in report : r.org_id = o /\ r.cluster = c }
          IN  IF found = {}
              THEN /\ rres' = [made |-> TRUE, orgID |-> o, clusterName |-> c,
                               err |-> "NotFound", fault |-> None, report |-> {},
                               lastChecked |-> Timestamp(0)]
                   /\ UNCHANGED <<rpc, rargs>>
              ELSE /\ rargs' = [orgID |-> o, clusterName |-> c,
                                lastChecked |-> (CHOOSE r \in found : TRUE).last_checked_at]
                   /\ rpc' = "hits"
                   /\ UNCHANGED rres
    /\ UNCHANGED <<storeVars, clock, toggleVars, consumerVars, lastBatch, dialectVars,
                   tqueries>>

\* storage.go:512-518: the query on report fails (closed connection, timeout)
\* and the error is returned
ReadReport_QueryRowFails ==
    /\ rpc = "idle"
    /\ \E o \in Orgs, c \in Clusters :
          rres' = [made |-> TRUE, orgID |-> o, clusterName |-> c, err |-> "dberror",
                   fault |-> "report", report |-> {}, lastChecked |-> Timestamp(0)]
    /\ UNCHANGED <<storeVars, clock, toggleVars, consumerVars, lastBatch, dialectVars,
                   tqueries, rpc, rargs>>

\* the rows the query on rule_hit matches, storage.go:520-522
ReadReport_Hits ==
    { r \in rule_hit : r.org_id = rargs.orgID /\ r.cluster_id = rargs.clusterName }

\* storage.go:520-531: the query on rule_hit and parseRuleRows over all rows
ReadReport_Query ==
    /\ rpc = "hits"
    /\ rres' = ReadReturned("nil", None, ReadReport_Hits, rargs.lastChecked)
    /\ rpc' = "idle"
    /\ rargs' = NoRead
    /\ UNCHANGED <<storeVars, clock, toggleVars, consumerVars, lastBatch, dialectVars,
                   tqueries>>

\* storage.go:520-527: the query on rule_hit fails and the error is returned
ReadReport_QueryFails ==
    /\ rpc = "hits"
    /\ rres' = ReadReturned("dberror", "rule_hit", {}, rargs.lastChecked)
    /\ rpc' = "idle"
    /\ rargs' = NoRead
    /\ UNCHANGED <<storeVars, clock, toggleVars, consumerVars, lastBatch, dialectVars,
                   tqueries>>

\* parseRuleRows, storage.go:381-385: rows.Scan fails on a row; the rules
\* read so far are returned with the error
ReadReport_ScanFails ==
    /\ rpc = "hits"
    /\ ReadReport_Hits # {}
    /\ \E part \in (SUBSET ReadReport_Hits) \ {ReadReport_Hits} :
          rres' = ReadReturned("dberror", "scan", part, rargs.lastChecked)
    /\ rpc' = "idle"
    /\ rargs' = NoRead
    /\ UNCHANGED <<storeVars, clock, toggleVars, consumerVars, lastBatch, dialectVars,
                   tqueries>>

\* parseRuleRows, storage.go:374 and 397: rows.Next() returns false because
\* the driver failed to fetch the next row; the loop ends, rows.Err() is not
\* consulted, and the rules read so far are returned with a nil error
ReadReport_NextFails ==
    /\ rpc = "hits"
    /\ ReadReport_Hits # {}
    /\ \E part \in (SUBSET ReadReport_Hits) \ {ReadReport_Hits} :
          rres' = ReadReturned("nil", "next", part, rargs.lastChecked)
    /\ rpc' = "idle"
    /\ rargs' = NoRead
    /\ UNCHANGED <<storeVars, clock, toggleVars, consumerVars, lastBatch, dialectVars,
                   tqueries>>

ReadReportForCluster_Steps ==
    \/ ReadReport_QueryRow
    \/ ReadReport_QueryRowFails
    \/ ReadReport_Query
    \/ ReadReport_QueryFails
    \/ ReadReport_ScanFails
    \/ ReadReport_NextFails

----------------------------------------------------------------------------
(* Rule toggles, rule_toggle.go.  Each statement runs on the connection     *)
(* outside any transaction and is atomic.                                   *)

\* rule_toggle.go:33
RuleToggleDisable == 1

\* rule_toggle.go:35
RuleToggleEnable == 0

\* a RuleToggle value that is neither of the two (rule_toggle.go:64)
RuleToggleUnexpected == 2

RuleToggles == {RuleToggleEnable, RuleToggleDisable, RuleToggleUnexpected}

RuleIDs == {"r1", "r2"}

ErrorKeys == {"e1", "e2"}

\* sql.NullTime
NullTime(t) == [Valid |-> TRUE, Time |-> t]

\* the zero sql.NullTime of "var enabledAt, disabledAt, updatedAt sql.NullTime"
NullTimeZero == [Valid |-> FALSE, Time |-> 0]

\* ON CONFLICT (cluster_id, rule_id, error_key), rule_toggle.go:73
ToggleKey(r) == <<r.cluster_id, r.rule_id, r.error_key>>

\* the values bound to $1 .. $7, rule_toggle.go:80-89
ToggleRow(a) ==
    [cluster_id |-> a.clusterID, rule_id |-> a.ruleID, error_key |-> a.errorKey,
     disabled |-> a.ruleToggle, disabled_at |-> a.disabledAt,
     enabled_at |-> a.enabledAt, updated_at |-> NullTime(a.now)]

\* a faulty variant: a row that exists for the key is left as it is
ToggleUpsertQuery_DoNothing(rows, new) ==
    IF \E r \in rows : ToggleKey(r) = ToggleKey(new) THEN rows ELSE rows \cup {new}

\* rule_toggle.go:68-78: INSERT ... ON CONFLICT ... DO UPDATE SET disabled,
\* disabled_at, enabled_at, updated_at
ToggleUpsertQuery(rows, new) ==
    IF \E r \in rows : ToggleKey(r) = ToggleKey(new)
    THEN { IF ToggleKey(r) = ToggleKey(new)
           THEN [r EXCEPT !.disabled = new.disabled,
                          !.disabled_at = new.disabled_at,
                          !.enabled_at = new.enabled_at,
                          !.updated_at = new.updated_at]
           ELSE r : r \in rows }
    ELSE rows \cup {new}

\* a faulty variant: the timestamp goes to the column of the other flag
ToggleTimes_Swapped(ruleToggle, updatedAt) ==
    IF ruleToggle = RuleToggleDisable
    THEN [disabledAt |-> NullTimeZero, enabledAt |-> updatedAt]
    ELSE [disabledAt |-> updatedAt, enabledAt |-> NullTimeZero]

\* rule_toggle.go:59-63: the switch on ruleToggle
ToggleTimes(ruleToggle, updatedAt) ==
    IF ruleToggle = RuleToggleDisable
    THEN [disabledAt |-> updatedAt, enabledAt |-> NullTimeZero]
    ELSE [disabledAt |-> NullTimeZero, enabledAt |-> updatedAt]

\* time.Now(): the wall clock may read the same for two calls
Now == {clock, clock + 1} \ {0}

\* ToggleRuleForCluster, rule_toggle.go:53-63: now, updatedAt and the switch
ToggleRuleForCluster_Switch(p) ==
    /\ tpc[p] = "idle"
    /\ ntoggles < MaxToggles
    /\ \E c \in Clusters, r \in RuleIDs, e \in ErrorKeys,
          t \in {RuleToggleEnable, RuleToggleDisable}, now \in Now :
          /\ clock' = now
          /\ targs' = [targs EXCEPT ![p] =
                 [clusterID |-> c, ruleID |-> r, errorKey |-> e, ruleToggle |-> t,
                  now |-> now,
                  disabledAt |-> ToggleTimes(t, NullTime(now)).disabledAt,
                  enabledAt |-> ToggleTimes(t, NullTime(now)).enabledAt]]
    /\ tpc' = [tpc EXCEPT ![p] = "exec"]
    /\ ntoggles' = ntoggles + 1
    /\ UNCHANGED <<storeVars, otherVars, cluster_rule_toggle, thist>>

\* ToggleRuleForCluster, rule_toggle.go:64-65: any other value returns an
\* error before the statement
ToggleRuleForCluster_Unexpected(p) ==
    /\ tpc[p] = "idle"
    /\ ntoggles < MaxToggles
    /\ \E t \in RuleToggles \ {RuleToggleEnable, RuleToggleDisable}, now \in Now :
          clock' = now
    /\ ntoggles' = ntoggles + 1
    /\ UNCHANGED <<storeVars, otherVars, cluster_rule_toggle, tpc, targs, thist>>

\* ToggleRuleForCluster, rule_toggle.go:80-95: the statement succeeds
ToggleRuleForCluster_Exec(p) ==
    /\ tpc[p] = "exec"
    /\ cluster_rule_toggle' = ToggleUpsertQuery(cluster_rule_toggle, ToggleRow(targs[p]))
    /\ thist' = Append(thist, [op |-> "toggle", clusterID |-> targs[p].clusterID,
                               ruleID |-> targs[p].ruleID,
                               errorKey |-> targs[p].errorKey,
                               ruleToggle |-> targs[p].ruleToggle,
                               now |-> targs[p].now])
    /\ tpc' = [tpc EXCEPT ![p] = "idle"]
    /\ UNCHANGED <<storeVars, otherVars, clock, targs, ntoggles>>

\* ToggleRuleForCluster, rule_toggle.go:90-93: the statement fails and the
\* error is returned
ToggleRuleForCluster_ExecFails(p) ==
    /\ tpc[p] = "exec"
    /\ tpc' = [tpc EXCEPT ![p] = "idle"]
    /\ UNCHANGED <<storeVars, otherVars, clock, cluster_rule_toggle, targs, ntoggles, thist>>

ToggleRuleForCluster(p) ==
    \/ ToggleRuleForCluster_Switch(p)
    \/ ToggleRuleForCluster_Unexpected(p)
    \/ ToggleRuleForCluster_Exec(p)
    \/ ToggleRuleForCluster_ExecFails(p)

\* DeleteFromRuleClusterToggle, rule_toggle.go:194-206: all rows of the
\* cluster and the rule, whatever their error key
DeleteFromRuleClusterToggle ==
    /\ ntoggles < MaxToggles
    /\ \E c \in Clusters, r \in RuleIDs :
          /\ cluster_rule_toggle' =
                 { x \in cluster_rule_toggle : ~(x.cluster_id = c /\ x.rule_id = r) }
          /\ thist' = Append(thist, [op |-> "delete", clusterID |-> c, ruleID |-> r,
                                     errorKey |-> None, ruleToggle |-> 0, now |-> 0])
    /\ ntoggles' = ntoggles + 1
    /\ UNCHANGED <<storeVars, otherVars, clock, tpc, targs>>

\* the rows the query of GetFromClusterRuleToggle matches, rule_toggle.go:117-119
TogglesOf(clusterID, ruleID) ==
    { r \in cluster_rule_toggle : r.cluster_id = clusterID /\ r.rule_id = ruleID }

\* GetFromClusterRuleToggle, rule_toggle.go:99-142: the results the call can
\* return (ORDER BY updated_at DESC LIMIT 1 picks any of the rows that share
\* the greatest updated_at)
GetFromClusterRuleToggle(clusterID, ruleID) ==
    LET rows == TogglesOf(clusterID, ruleID)
        top == { r \in rows : \A q \in rows : q.updated_at.Time <= r.updated_at.Time }
    IN  IF rows = {}
        THEN { [err |-> "ItemNotFound"] }
        ELSE { [err |-> "nil",
                toggle |-> [ClusterID |-> r.cluster_id, RuleID |-> r.rule_id,
                            Disabled |-> r.disabled, DisabledAt |-> r.disabled_at,
                            EnabledAt |-> r.enabled_at, UpdatedAt |-> r.updated_at]] :
               r \in top }

\* GetTogglesForRules, rule_toggle.go:145-191: the maps the call can return
\* for a list of rule identifiers without quotes; toggles[ruleID] is set by
\* each row of the rule in the order the rows come, so the last row wins
GetTogglesForRules(clusterID, ruleIDs) ==
    LET asked == { ruleIDs[i] : i \in 1 .. Len(ruleIDs) }
        found == { r \in asked : TogglesOf(clusterID, r) # {} }
    IN  { m \in [found -> BOOLEAN] :
            \A r \in found :
                \E x \in TogglesOf(clusterID, r) : m[r] = (x.disabled = RuleToggleDisable) }

----------------------------------------------------------------------------
(* The two dialects side by side: a store on SQLite and a store on          *)
(* PostgreSQL are given the same calls, one after the other, and no         *)
(* statement fails.  A call is then the whole of WriteReportForCluster.     *)

RECURSIVE UpsertRuleHits(_, _, _, _)
\* updateReport, storage.go:651-659: the loop over rules, from rule i on
UpsertRuleHits(driver, rows, a, i) ==
    IF i > Len(a.rules) THEN rows
    ELSE UpsertRuleHits(driver,
                        getRuleHitUpsertQuery(driver, rows, RuleHitRow(a, a.rules[i])),
                        a, i + 1)

\* updateReport, storage.go:626-668: the delete, the rule hits, the report
updateReport(driver, st, a, reportedAt) ==
    [st EXCEPT
        !.rule_hit = UpsertRuleHits(driver, DeleteRuleHits(st.rule_hit, a), a, 1),
        !.report = getReportUpsertQuery(driver, st.report, ReportRow(a, reportedAt))]

\* WriteReportForCluster, storage.go:679-729, on a store of a supported
\* driver: the fast path, the re-check, updateReport and the cache entry
WriteReportForClusterOn(driver, st, a, reportedAt) ==
    IF /\ st.clustersLastChecked[a.clusterName].exists
       /\ ~(a.lastCheckedTime > st.clustersLastChecked[a.clusterName].time)
    THEN [store |-> st, err |-> "ErrOldReport", wrote |-> FALSE]
    ELSE IF MoreRecentInDB(st.report, a)
    THEN [store |-> st, err |-> "nil", wrote |-> FALSE]
    ELSE [store |-> [updateReport(driver, st, a, reportedAt) EXCEPT
                        !.clustersLastChecked =
                            CachePut(@, a.clusterName, a.lastCheckedTime)],
          err |-> "nil", wrote |-> TRUE]

Dialects == {DBDriverSQLite3, DBDriverPostgres}

\* the same call on both stores
WriteReportForClusterOnBoth ==
    /\ nwrites < MaxWrites
    /\ \E o \in Orgs, c \in Clusters, pl \in Payloads, h \in HitLists, t \in Times :
          LET a == CallArgs(o, c, pl, h, t)
              done == [d \in Dialects |-> WriteReportForClusterOn(d, stores[d], a, clock + 1)]
          IN  /\ stores' = [d \in Dialects |-> done[d].store]
              /\ sresult' = [args |-> a, err |-> [d \in Dialects |-> done[d].err]]
              /\ clock' = IF \E d \in Dialects : done[d].wrote THEN clock + 1 ELSE clock
    /\ nwrites' = nwrites + 1
    /\ UNCHANGED <<storeVars, toggleVars, consumerVars, lastBatch, tqueries, readVars>>

\* ReadReportForCluster, storage.go:505-532, on the tables of a store
ReadReportForClusterOn(st, orgID, clusterName) ==
    LET found == { r \in st.report : r.org_id = orgID /\ r.cluster = clusterName }
        hits  == { r \in st.rule_hit : r.org_id = orgID /\ r.cluster_id = clusterName }
    IN  IF found = {}
        THEN [err |-> "NotFound", report |-> {}, lastChecked |-> Timestamp(0)]
        ELSE [err |-> "nil", report |-> parseRuleRows(hits),
              lastChecked |-> Timestamp((CHOOSE r \in found : TRUE).last_checked_at)]

----------------------------------------------------------------------------
(* The latest Kafka offset, storage.go:587-592 *)

\* SQL NULL and a value, as the columns of the one row the query returns
SqlNull == [Valid |-> FALSE, Value |-> 0]

SqlValue(v) == [Valid |-> TRUE, Value |-> v]

\* MAX(column): NULL when there is no row
SqlMax(values) ==
    IF values = {} THEN SqlNull
    ELSE SqlValue(CHOOSE m \in values : \A v \in values : v <= m)

\* COALESCE(x, y)
SqlCoalesce(x, y) == IF x.Valid THEN x.Value ELSE y

\* a faulty variant: the offset to consume next, MAX(kafka_offset) + 1
GetLatestKafkaOffset_Next(rows) ==
    LET greatest == SqlMax({ r.kafka_offset : r \in rows })
    IN  SqlCoalesce(IF greatest.Valid THEN SqlValue(greatest.Value + 1) ELSE SqlNull, 0)

\* GetLatestKafkaOffset, storage.go:588-592:
\* SELECT COALESCE(MAX(kafka_offset), 0) FROM report
GetLatestKafkaOffset(rows) ==
    SqlCoalesce(SqlMax({ r.kafka_offset : r \in rows }), 0)

----------------------------------------------------------------------------
(* Reading the reports of a list of clusters, storage.go:400-503 *)

RECURSIVE constructInClausuleFrom(_, _, _)
\* constructInClausule, storage.go:405-407: the loop "for i := 2; i <= howMany"
\* appends ",$i"; a clause is kept as the list of its placeholder numbers
constructInClausuleFrom(inClausule, i, howMany) ==
    IF i <= howMany
    THEN constructInClausuleFrom(Append(inClausule, i), i + 1, howMany)
    ELSE inClausule

\* constructInClausule, storage.go:402-409: the clause starts as "$1"
constructInClausule(howMany) == constructInClausuleFrom(<<1>>, 2, howMany)

\* argsWithClusterNames, storage.go:413-421
argsWithClusterNames(clusterNames) ==
    [i \in 1 .. Len(clusterNames) |-> clusterNames[i]]

\* the lists of cluster names a caller passes
ClusterLists ==
    {<<>>} \cup { <<c>> : c \in Clusters } \cup { <<c, d>> : c, d \in Clusters }

\* the rows "SELECT cluster, report FROM report WHERE cluster in (...)"
\* matches, storage.go:476; a placeholder no argument is bound to is NULL
\* and equals no cluster
SelectReportsIn(rows, inClausule, queryArgs) ==
    { r \in rows :
        \E i \in 1 .. Len(inClausule) :
            inClausule[i] <= Len(queryArgs) /\ r.cluster = queryArgs[inClausule[i]] }

\* the loop over the rows, storage.go:485-499: reports[clusterName] = clusterReport
ReportsByCluster(rows) ==
    [c \in { r.cluster : r \in rows } |->
        (CHOOSE r \in rows : r.cluster = c).report]

\* connection.Query(query, args...), storage.go:479: what the drivers answer.
\* PostgreSQL refuses a statement whose parameters are not all bound; the
\* SQLite driver binds the arguments it got and leaves the rest NULL; of
\* another driver either is possible.  Any query may also fail.
QueryReportsIn(driver, rows, inClausule, queryArgs) ==
    LET bound == \A i \in 1 .. Len(inClausule) : inClausule[i] <= Len(queryArgs)
        rowsOut == [err |-> "nil", rows |-> SelectReportsIn(rows, inClausule, queryArgs)]
        failed == [err |-> "dberror", rows |-> {}]
    IN  IF bound THEN {rowsOut, failed}
        ELSE IF driver = DBDriverPostgres THEN {failed}
        ELSE IF driver = DBDriverSQLite3 THEN {rowsOut, failed}
        ELSE {rowsOut, failed}

\* ReadReportsForClusters, storage.go:464-503: the query is built and run for
\* every list, the empty one included
ReadReportsForClusters ==
    /\ \E clusterNames \in ClusterLists :
          LET queryArgs == argsWithClusterNames(clusterNames)
              inClausule == constructInClausule(Len(clusterNames))
          IN  \E answer \in QueryReportsIn(dbDriverType, report, inClausule, queryArgs) :
                  lastBatch' = [made |-> TRUE, clusterNames |-> clusterNames,
                                inClausule |-> inClausule, args |-> queryArgs,
                                executed |-> TRUE, err |-> answer.err,
                                reports |-> ReportsByCluster(answer.rows)]
    /\ UNCHANGED <<storeVars, clock, toggleVars, consumerVars, dialectVars, tqueries,
                   readVars>>

----------------------------------------------------------------------------
(* The consumer error log, storage.go:773-781.  One statement, run on the   *)
(* connection outside any transaction.                                      *)

\* sarama.ConsumerMessage: Topic, Partition, Offset, Key, Timestamp, Value
ConsumerMessages ==
    [Topic : {"t1"}, Partition : {0, 1}, Offset : {1, 2}, Key : {"k1"},
     Timestamp : {1}, Value : {"m1", "m2"}]

\* consumerErr.Error()
ConsumerErrors == {"x1", "x2"}

\* PRIMARY KEY(topic, partition, topic_offset), docs/db_structure.md:143
ConsumerErrorKey(r) == <<r.topic, r.partition, r.topic_offset>>

\* the values bound to $1 .. $8, storage.go:778
ConsumerErrorRow(msg, consumedAt, consumerErr) ==
    [topic |-> msg.Topic, partition |-> msg.Partition, topic_offset |-> msg.Offset,
     key |-> msg.Key, produced_at |-> msg.Timestamp, consumed_at |-> consumedAt,
     message |-> msg.Value, error |-> consumerErr]

\* a faulty variant: the row that holds the key is replaced
InsertIntoConsumerError_Replaces(rows, new) ==
    [rows |-> { r \in rows : ConsumerErrorKey(r) # ConsumerErrorKey(new) } \cup {new},
     err |-> "nil"]

\* storage.go:776-777: a plain INSERT, no ON CONFLICT clause: a row that
\* repeats the primary key violates the constraint and nothing is stored
InsertIntoConsumerError(rows, new) ==
    IF \E r \in rows : ConsumerErrorKey(r) = ConsumerErrorKey(new)
    THEN [rows |-> rows, err |-> "constraint"]
    ELSE [rows |-> rows \cup {new}, err |-> "nil"]

\* WriteConsumerError, storage.go:774-781: the statement is executed and its
\* error, if any, is returned
WriteConsumerError ==
    /\ nerrors < MaxErrors
    /\ \E msg \in ConsumerMessages, e \in ConsumerErrors, now \in Now :
          LET done == InsertIntoConsumerError(consumer_error,
                                              ConsumerErrorRow(msg, now, e))
          IN  /\ clock' = now
              /\ consumer_error' = done.rows
              /\ cresult' = [msg |-> msg, error |-> e, err |-> done.err,
                             before |-> consumer_error]
    /\ nerrors' = nerrors + 1
    /\ UNCHANGED <<storeVars, toggleVars, lastBatch, dialectVars, tqueries, readVars>>

\* WriteConsumerError, storage.go:774-781: the statement does not reach the
\* table (connection lost, timeout) and the error is returned
WriteConsumerError_Fails ==
    /\ nerrors < MaxErrors
    /\ \E msg \in ConsumerMessages, e \in ConsumerErrors, now \in Now :
          /\ clock' = now
          /\ cresult' = [msg |-> msg, error |-> e, err |-> "dberror",
                         before |-> consumer_error]
    /\ nerrors' = nerrors + 1
    /\ UNCHANGED <<storeVars, toggleVars, consumer_error, lastBatch, dialectVars,
                   tqueries, readVars>>

----------------------------------------------------------------------------
(* The statement of GetTogglesForRules, rule_toggle.go:149-168.  A text is  *)
(* kept as the list of its pieces.                                          *)

\* the Module of the rules of a report, as a caller may send them
LookupRuleIDs == {"r1", "r2", "r1') OR ('1'='1"}

LookupLists ==
    {<<>>} \cup { <<r>> : r \in LookupRuleIDs } \cup { <<r, q>> : r, q \in LookupRuleIDs }

RECURSIVE StringsJoin(_, _)
\* strings.Join(elems, sep)
StringsJoin(elems, sep) ==
    IF Len(elems) = 0 THEN <<>>
    ELSE IF Len(elems) = 1 THEN <<elems[1]>>
    ELSE <<elems[1], sep>> \o StringsJoin(Tail(elems), sep)

\* rule_toggle.go:155-166: the query with %v replaced by
\* "'" + strings.Join(ruleIDs, "','") + "'"
TogglesForRulesQuery(ruleIDs) ==
    <<"SELECT rule_id, disabled FROM cluster_rule_toggle WHERE cluster_id = $1 AND rule_id in (">>
        \o <<"'">> \o StringsJoin(ruleIDs, "','") \o <<"'">> \o <<")">>

\* GetTogglesForRules, rule_toggle.go:149-168: the statement text and the
\* bound parameters handed to connection.Query
GetTogglesForRules_Query ==
    /\ \E clusterID \in Clusters, ruleIDs \in LookupLists :
          tqueries' = (IF tqueries = <<>> THEN <<>> ELSE <<tqueries[Len(tqueries)]>>)
                          \o << [ruleIDs |-> ruleIDs,
                                 text |-> TogglesForRulesQuery(ruleIDs),
                                 params |-> <<clusterID>>] >>
    /\ UNCHANGED <<storeVars, clock, toggleVars, consumerVars, lastBatch, dialectVars,
                   readVars>>

----------------------------------------------------------------------------
(* Specifications *)

AllInputs == [orgs |-> Orgs, clusters |-> Clusters, payloads |-> Payloads,
              hits |-> HitLists, times |-> Times]

\* one caller: calls that do not overlap
NextSeq ==
    \/ (initRows = {} /\ Call(1, AllInputs, MaxCalls, TRUE))
    \/ WriteReportForCluster(1)
    \/ NewFromConnection
    \/ InitQuery
    \/ InitStore

SpecSeq == Init /\ [][NextSeq]_vars

\* the inputs of the caller that shares the store with report deletions
StoreInputs == [orgs |-> Orgs, clusters |-> Clusters, payloads |-> Payloads,
                hits |-> {<<>>, <<ReportItem("r1", "e1", "d1")>>}, times |-> Times]

\* one caller, and the reports are deleted between its calls
NextStore ==
    \/ (initRows = {} /\ Call(1, StoreInputs, MaxCalls, TRUE))
    \/ WriteReportForCluster(1)
    \/ DeleteReportsForOrg
    \/ DeleteReportsForCluster
    \/ NewFromConnection
    \/ InitQuery
    \/ InitStore

SpecStore == Init /\ [][NextStore]_vars

\* the inputs of the concurrent callers
ConcurrentInputs == [orgs |-> Orgs, clusters |-> Clusters,
                     payloads |-> {[report |-> "b1", kafkaOffset |-> 1]},
                     hits |-> HitLists, times |-> Times]

\* callers 1 and 2 run WriteReportForCluster concurrently on one instance
Next ==
    \/ \E p \in Procs : Call(p, ConcurrentInputs, MaxConcurrentCalls, FALSE)
    \/ \E p \in Procs : WriteReportForCluster(p)
    \/ RaceCrash

Spec == Init /\ [][Next]_vars

\* callers 1 and 2 set rule toggles concurrently, and toggles are deleted
NextToggle ==
    \/ \E p \in Procs : ToggleRuleForCluster(p)
    \/ DeleteFromRuleClusterToggle

SpecToggle == Init /\ [][NextToggle]_vars

\* the inputs of the caller whose reports the next instance finds stored
InitInputs == [orgs |-> {1}, clusters |-> Clusters,
               payloads |-> {[report |-> "b1", kafkaOffset |-> 1]},
               hits |-> {<<>>, <<ReportItem("r1", "e1", "d1")>>}, times |-> Times]

\* one caller, and instances that run Init on the reports stored so far
NextInit ==
    \/ (initRows = {} /\ Call(1, InitInputs, MaxCalls, TRUE))
    \/ WriteReportForCluster(1)
    \/ NewFromConnection
    \/ InitQuery
    \/ InitQueryFails
    \/ InitStore
    \/ InitScanFails
    \/ InitNextFails

SpecInit == Init /\ [][NextInit]_vars

\* the inputs of the caller whose reports are read in batches
BatchInputs == [orgs |-> {1}, clusters |-> Clusters, payloads |-> Payloads,
                hits |-> {<<>>, <<ReportItem("r1", "e1", "d1")>>}, times |-> Times]

\* one caller writes reports, and the reports of lists of clusters are read
NextBatch ==
    \/ Call(1, BatchInputs, MaxCalls, TRUE)
    \/ WriteReportForCluster(1)
    \/ ReadReportsForClusters

SpecBatch == Init /\ [][NextBatch]_vars

\* the two stores take the same calls
NextDialects == WriteReportForClusterOnBoth

SpecDialects == Init /\ [][NextDialects]_vars

\* the inputs of the caller whose reports are read while it writes
ReadInputs == [orgs |-> {1}, clusters |-> {"c1"},
               payloads |-> {[report |-> "b1", kafkaOffset |-> 1]},
               hits |-> {<<>>, <<ReportItem("r1", "e1", "d1")>>,
                         <<ReportItem("r2", "e1", "d1")>>},
               times |-> Times]

\* one caller writes reports and one caller reads them, concurrently
NextRead ==
    \/ Call(1, ReadInputs, MaxCalls, TRUE)
    \/ WriteReportForCluster(1)
    \/ ReadReportForCluster_Steps

SpecRead == Init /\ [][NextRead]_vars

\* the toggles of lists of rules are looked up one after the other
NextLookup == GetTogglesForRules_Query

SpecLookup == Init /\ [][NextLookup]_vars

\* consumer errors are recorded one after the other
NextConsumer ==
    \/ WriteConsumerError
    \/ WriteConsumerError_Fails

SpecConsumer == Init /\ [][NextConsumer]_vars

----------------------------------------------------------------------------
(* Properties *)

Last(h) == h[Len(h)]

\* the call passed both staleness checks and its transaction committed
Accepted(w) == w.err = "nil" /\ w.outcome = "committed"

\* the caller of the sequential specification is between two calls
Quiet == pc[1] = "idle" /\ initRows = {}

HitKeys(hits) == { <<h.Module, h.ErrorKey>> : h \in hits }

ListKeys(rules) == { <<rules[i].Module, rules[i].ErrorKey>> : i \in 1 .. Len(rules) }

NoRepeatedPair(rules) == Cardinality(ListKeys(rules)) = Len(rules)

\* what a read returns for rule hits stored as given
AsRead(rules) ==
    { [Module |-> rules[i].Module, ErrorKey |-> rules[i].ErrorKey,
       TemplateData |-> parseTemplateData(rules[i].TemplateData)] :
      i \in 1 .. Len(rules) }

\* the last two calls: an accepted write, then a write with the same org and
\* cluster and a later checkedAt that no database fault hit
NewerFollowsAccepted ==
    /\ Quiet
    /\ Len(hist) >= 2
    /\ Accepted(hist[Len(hist) - 1])
    /\ Last(hist).args.orgID = hist[Len(hist) - 1].args.orgID
    /\ Last(hist).args.clusterName = hist[Len(hist) - 1].args.clusterName
    /\ Last(hist).args.lastCheckedTime > hist[Len(hist) - 1].args.lastCheckedTime
    /\ Last(hist).fault = None

OlderFollowsAccepted ==
    /\ Quiet
    /\ Len(hist) >= 2
    /\ Accepted(hist[Len(hist) - 1])
    /\ Last(hist).args.orgID = hist[Len(hist) - 1].args.orgID
    /\ Last(hist).args.clusterName = hist[Len(hist) - 1].args.clusterName
    /\ Last(hist).args.lastCheckedTime <= hist[Len(hist) - 1].args.lastCheckedTime
    /\ Last(hist).fault = None

\* the committed tables are those the call found when it started
TablesAsBefore(p) == report = pre[p].report /\ rule_hit = pre[p].rule_hit

\* C2: after an accepted write of cluster C at t1, a later write of C at
\* t0 <= t1 leaves the report row and the rule hits as the t1 write left them;
\* it fails with the stale-report error when the cache holds C's entry and is
\* silently ignored (success, nothing written) when the cache holds none.
C2_OlderReportLeavesState ==
    OlderFollowsAccepted =>
        /\ TablesAsBefore(1)
        /\ IF pre[1].cache[Last(hist).args.clusterName].exists
           THEN Last(hist).err = "ErrOldReport"
           ELSE Last(hist).err = "nil" /\ Last(hist).outcome = "noop"

AllReturned == \A p \in Procs : pc[p] = "idle"

\* no call so far met a database fault or a crash
NoFaultSoFar == \A i \in 1 .. Len(hist) : hist[i].fault = None

\* all calls so far carry the same org
OneOrgSoFar ==
    /\ \A i, j \in 1 .. Len(hist) : hist[i].args.orgID = hist[j].args.orgID
    /\ \A p \in Procs, i \in 1 .. Len(hist) :
           InFlight(p) => args[p].orgID = hist[i].args.orgID
    /\ \A p, q \in Procs :
           InFlight(p) /\ InFlight(q) => args[p].orgID = args[q].orgID

CallsFor(c) == { i \in 1 .. Len(hist) : hist[i].args.clusterName = c }

\* C3: for concurrent writeReport calls for one cluster, in any interleaving
\* of their steps, once all calls have returned the stored report row of the
\* cluster is the one of the call with the greatest checkedAt (stated for
\* PostgreSQL, calls of one org, and runs without database faults).
C3_GreatestCheckedAtWins ==
    (AllReturned /\ NoFaultSoFar /\ OneOrgSoFar /\ dbDriverType = DBDriverPostgres) =>
        \A c \in Clusters :
            CallsFor(c) # {} =>
                \E r \in report :
                    /\ r.cluster = c
                    /\ \A i \in CallsFor(c) :
                           hist[i].args.lastCheckedTime <= r.last_checked_at

\* the committed rule hits of cluster c, as (org, rule, errorKey)
StoredHits(c) ==
    { <<h.org_id, h.rule_fqdn, h.error_key>> : h \in { x \in rule_hit : x.cluster_id = c } }

\* the rule hits a write asked for, as (org, rule, errorKey)
WrittenHits(a) == { <<a.orgID, k[1], k[2]>> : k \in ListKeys(a.rules) }

\* C4: in every committed state reached by concurrent writeReport calls, the
\* stored rule hits of a cluster are exactly those of the one write whose
\* report row is stored, never a union or a mix of two writes (stated for
\* PostgreSQL and calls of one org).
C4_RuleHitsOfOneWrite ==
    (OneOrgSoFar /\ dbDriverType = DBDriverPostgres) =>
        \A r \in report : \A i \in 1 .. Len(hist) :
            (hist[i].outcome = "committed" /\ hist[i].reportedAt = r.reported_at)
                => StoredHits(r.cluster) = WrittenHits(hist[i].args)

\* C5: after any sequence of writeReport calls (accepted, rejected or failed,
\* any org ids, either backend) the report table holds at most one row per
\* cluster, and that row carries the org, blob, checkedAt and offset of one
\* single write.
C5_OneRowOfOneWrite ==
    /\ \A r1, r2 \in report : r1.cluster = r2.cluster => r1 = r2
    /\ \A r \in report :
           \E i \in 1 .. Len(hist) :
               /\ hist[i].outcome = "committed"
               /\ r = ReportRow(hist[i].args, hist[i].reportedAt)

\* C5 witness: two accepted writes of one cluster under different orgs and
\* with different payloads, and the row is the second write's
C5_Witness ==
    /\ Quiet
    /\ Len(hist) = 2
    /\ Accepted(hist[1]) /\ Accepted(hist[2])
    /\ hist[1].args.clusterName = hist[2].args.clusterName
    /\ hist[1].args.orgID # hist[2].args.orgID
    /\ hist[1].args.report # hist[2].args.report
    /\ report = {ReportRow(hist[2].args, hist[2].reportedAt)}

\* the caller's last call was made on the running instance, so that the cache
\* it found is the cache of this instance
SameInstance(p) == pre[p].taken /\ pre[p].instance = restarts

\* the cache the call found held the cluster at a time >= checkedAt
StaleAtEntry(p) ==
    /\ pre[p].cache[args[p].clusterName].exists
    /\ pre[p].cache[args[p].clusterName].time >= args[p].lastCheckedTime

CacheAsBefore(p) == clustersLastChecked = pre[p].cache

\* C6: when the cache holds the cluster with a value >= checkedAt, the call
\* never opens a transaction, returns the stale-report error, and leaves the
\* report table, the rule-hit table and the cache as it found them.
C6_FastPathRejects ==
    (SameInstance(1) /\ StaleAtEntry(1)) =>
        /\ ~tx[1].open
        /\ pc[1] \in {"cacheCheck", "idle"}
        /\ TablesAsBefore(1)
        /\ CacheAsBefore(1)
        /\ pc[1] = "idle" =>
               Last(hist).err = "ErrOldReport" /\ Last(hist).outcome = "stale"

\* C6 witness: a call with checkedAt equal to the cached value was rejected
C6_Witness ==
    /\ SameInstance(1) /\ StaleAtEntry(1)
    /\ pc[1] = "idle"
    /\ pre[1].cache[args[1].clusterName].time = args[1].lastCheckedTime
    /\ Last(hist).err = "ErrOldReport"
    /\ report # {}

\* the tables the call found held a report of its org and cluster with a
\* last_checked_at strictly greater than its checkedAt
NewerStoredAtEntry(p) ==
    \E r \in pre[p].report : /\ r.org_id = args[p].orgID
                             /\ r.cluster = args[p].clusterName
                             /\ r.last_checked_at > args[p].lastCheckedTime

\* the last call got past the fast path into a transaction whose re-check ran
\* and found a newer report; no statement of it failed
RecheckFoundNewer ==
    /\ Quiet
    /\ SameInstance(1)
    /\ ~StaleAtEntry(1)
    /\ NewerStoredAtEntry(1)
    /\ dbDriverType \in {DBDriverSQLite3, DBDriverPostgres}
    /\ Last(hist).fault \in {None, "commit"}

\* C7: when the fast path lets the call through and the re-check finds a
\* stored report of the org and cluster with last_checked_at > checkedAt, the
\* call returns success and the report rows, the rule hits and the cache are
\* the same after the call as before it.
C7_RecheckNoOp ==
    RecheckFoundNewer =>
        /\ Last(hist).err = "nil"
        /\ Last(hist).outcome \in {"noop", "commitFailed"}
        /\ TablesAsBefore(1)
        /\ CacheAsBefore(1)

\* C7 witness: the re-check stopped a write whose rule hits differ from the
\* stored ones
C7_Witness ==
    /\ RecheckFoundNewer
    /\ Last(hist).outcome = "noop"
    /\ StoredHits(args[1].clusterName) # WrittenHits(args[1])

C9_CacheAfterCommit ==
    /\ (SameInstance(1) /\ tx[1].open) => CacheAsBefore(1)
    /\ (Quiet /\ SameInstance(1) /\ Len(hist) >= 1
            /\ Last(hist).outcome = "commitFailed") => CacheAsBefore(1)

\* C10: no reachable state has two running calls inside a cache access of
\* which at least one writes the map.
C10_CacheAccessesExclusive == ~CacheRace

\* the tables the call found held a report of its org and cluster whose
\* last_checked_at equals its checkedAt
EqualStoredAtEntry(p) ==
    /\ pre[p].taken
    /\ \E r \in pre[p].report : /\ r.org_id = args[p].orgID
                                /\ r.cluster = args[p].clusterName
                                /\ r.last_checked_at = args[p].lastCheckedTime

\* C11: a write whose checkedAt equals the stored last_checked_at of the
\* cluster is never re-applied: neither the rule hits nor the report row are
\* rewritten, whichever of the two checks meets the equality.
C11_EqualCheckedAtIsStale == EqualStoredAtEntry(1) => TablesAsBefore(1)

\* the last two calls carry identical arguments and the first was accepted
SameWriteTwice ==
    /\ Quiet
    /\ Len(hist) >= 2
    /\ Accepted(hist[Len(hist) - 1])
    /\ Last(hist).args = hist[Len(hist) - 1].args

\* report rows without the time of the write itself
ModuloReportedAt(rows) == { [r EXCEPT !.reported_at = 0] : r \in rows }

\* the committed rule-hit rows of an org and a cluster
RuleHitsOf(o, c) == { h \in rule_hit : h.org_id = o /\ h.cluster_id = c }

\* C12: writing the identical (org, cluster, report, ruleHits, checkedAt)
\* twice in sequence leaves what one write leaves: one report row for the
\* cluster, carrying the write's fields, and one rule-hit row per distinct
\* (rule, errorKey), whatever the second call returned.
C12_SameWriteTwiceAsOnce ==
    SameWriteTwice =>
        LET a == Last(hist).args
            rows == RuleHitsOf(a.orgID, a.clusterName)
        IN  /\ Cardinality({ r \in report : r.cluster = a.clusterName }) = 1
            /\ ModuloReportedAt({ r \in report : r.cluster = a.clusterName })
                   = {ReportRow(a, 0)}
            /\ ModuloReportedAt(report) = ModuloReportedAt(pre[1].report)
            /\ { <<h.rule_fqdn, h.error_key>> : h \in rows } = ListKeys(a.rules)
            /\ Cardinality(rows) = Cardinality(ListKeys(a.rules))
            /\ rule_hit = pre[1].rule_hit

\* C12 witness: the second write was applied again, with a rule-hit list that
\* repeats a pair
C12_Witness ==
    /\ SameWriteTwice
    /\ Last(hist).outcome = "committed"
    /\ ~NoRepeatedPair(Last(hist).args.rules)

\* the last call was accepted
LastAccepted == Quiet /\ Len(hist) >= 1 /\ Accepted(Last(hist))

LastAcceptedWithHits == LastAccepted /\ Last(hist).args.rules # <<>>

C15_NotFoundIffNoRow ==
    /\ \A o \in Orgs, c \in Clusters :
           (ReadReportForCluster(o, c).err = "NotFound")
               <=> ~(\E r \in report : r.org_id = o /\ r.cluster = c)
    /\ \A c \in Clusters :
           (ReadReportForClusterByClusterName(c).err = "NotFound")
               <=> ~(\E r \in report : r.cluster = c)
    /\ lastDeleted.kind = "cluster" =>
           /\ ReadReportForClusterByClusterName(lastDeleted.cluster).err = "NotFound"
           /\ \A o \in Orgs :
                  ReadReportForCluster(o, lastDeleted.cluster).err = "NotFound"
    /\ lastDeleted.kind = "org" =>
           \A c \in Clusters : ReadReportForCluster(lastDeleted.org, c).err = "NotFound"

\* C15 witness: the report of a cluster with stored rule hits was deleted, and
\* both reads of the cluster fail with NotFound
C15_Witness ==
    /\ lastDeleted.kind = "cluster"
    /\ \E i \in 1 .. Len(hist) :
           Accepted(hist[i]) /\ hist[i].args.clusterName = lastDeleted.cluster
    /\ StoredHits(lastDeleted.cluster) # {}
    /\ ReadReportForClusterByClusterName(lastDeleted.cluster).err = "NotFound"
    /\ \A o \in Orgs : ReadReportForCluster(o, lastDeleted.cluster).err = "NotFound"

\* the last two toggle statements disabled and, at a later time, enabled one
\* key, and the rule has no toggle row under another error key
DisabledThenEnabled ==
    /\ Len(thist) >= 2
    /\ thist[Len(thist) - 1].op = "toggle" /\ Last(thist).op = "toggle"
    /\ thist[Len(thist) - 1].clusterID = Last(thist).clusterID
    /\ thist[Len(thist) - 1].ruleID = Last(thist).ruleID
    /\ thist[Len(thist) - 1].errorKey = Last(thist).errorKey
    /\ thist[Len(thist) - 1].ruleToggle = RuleToggleDisable
    /\ Last(thist).ruleToggle = RuleToggleEnable
    /\ thist[Len(thist) - 1].now < Last(thist).now
    /\ \A r \in TogglesOf(Last(thist).clusterID, Last(thist).ruleID) :
           r.error_key = Last(thist).errorKey

\* C16: after setToggle(C, R, E, disabled = true) and then
\* setToggle(C, R, E, disabled = false), getToggle(C, R) returns the enabled
\* state with enabled_at = the time of the second write and disabled_at = the
\* time of the first write.
C16_EnableKeepsDisabledAt ==
    DisabledThenEnabled =>
        \A g \in GetFromClusterRuleToggle(Last(thist).clusterID, Last(thist).ruleID) :
            /\ g.err = "nil"
            /\ g.toggle.Disabled = RuleToggleEnable
            /\ g.toggle.EnabledAt = NullTime(Last(thist).now)
            /\ g.toggle.DisabledAt = NullTime(thist[Len(thist) - 1].now)

\* exactly one of the two timestamps is the time of the write, the one that
\* goes with the flag
OneTimeSet(disabled, disabledAt, enabledAt, updatedAt) ==
    /\ updatedAt.Valid
    /\ disabled \in {RuleToggleEnable, RuleToggleDisable}
    /\ disabled = RuleToggleDisable => (disabledAt = updatedAt /\ enabledAt # updatedAt)
    /\ disabled = RuleToggleEnable => (enabledAt = updatedAt /\ disabledAt # updatedAt)

\* C17: every setToggle write sets exactly one of disabled_at / enabled_at to
\* the time of the write, the one matching the new flag, and updated_at to the
\* same time; so each stored row with disabled = 1 has disabled_at =
\* updated_at and each row with disabled = 0 has enabled_at = updated_at.
C17_OneTimestampPerWrite ==
    /\ \A p \in Procs :
           tpc[p] = "exec" =>
               OneTimeSet(targs[p].ruleToggle, targs[p].disabledAt,
                          targs[p].enabledAt, NullTime(targs[p].now))
    /\ \A r \in cluster_rule_toggle :
           OneTimeSet(r.disabled, r.disabled_at, r.enabled_at, r.updated_at)

\* C17 witness: a key was disabled and then enabled, and its row carries the
\* time of the enabling in enabled_at and updated_at
C17_Witness ==
    /\ DisabledThenEnabled
    /\ \E r \in cluster_rule_toggle :
           /\ ToggleKey(r) = <<Last(thist).clusterID, Last(thist).ruleID, Last(thist).errorKey>>
           /\ r.disabled = RuleToggleEnable
           /\ r.enabled_at = NullTime(Last(thist).now)
           /\ r.updated_at = NullTime(Last(thist).now)

\* the statements so far that touched the key (c, r, e): a toggle of the key,
\* or a delete of the toggles of (c, r)
TouchedBy(c, r, e) ==
    { i \in 1 .. Len(thist) :
        /\ thist[i].clusterID = c
        /\ thist[i].ruleID = r
        /\ thist[i].op = "toggle" => thist[i].errorKey = e }

LastOf(I) == CHOOSE i \in I : \A j \in I : j <= i

DistinctTimes(rows) ==
    \A x, y \in rows : x.updated_at = y.updated_at => x = y

\* C19: getToggle(cluster, rule) returns the not-found error exactly when no
\* row exists, and otherwise the row with the greatest updated_at, which
\* reports the state of the most recent setToggle of the key: for every
\* (cluster, rule, errorKey) that has a row, the flag returned is the flag of
\* that row, whatever was toggled for the rule under another error key
\* (stated for rows updated at different times).
C19_GetToggleReportsKey ==
    \A c \in Clusters, r \in RuleIDs :
        /\ (GetFromClusterRuleToggle(c, r) = { [err |-> "ItemNotFound"] })
               <=> TogglesOf(c, r) = {}
        /\ DistinctTimes(TogglesOf(c, r)) =>
           \A x \in TogglesOf(c, r) :
               \A g \in GetFromClusterRuleToggle(c, r) :
                   /\ g.err = "nil"
                   /\ g.toggle.UpdatedAt.Time >= x.updated_at.Time
                   /\ g.toggle.Disabled = x.disabled

\* the statements so far that touched rule r of cluster c
RuleTouchedBy(c, r) ==
    { i \in 1 .. Len(thist) : thist[i].clusterID = c /\ thist[i].ruleID = r }

AllRuleIDs == <<"r1", "r2">>

\* C20: toggles are per cluster: every batch lookup for cluster C maps a rule
\* to disabled after the rule was disabled, to not disabled after it was
\* enabled again, and has no entry (not disabled) for a rule never toggled or
\* whose toggles were deleted; what it says of a rule does not depend on the
\* toggles of another rule.
C20_BatchLookupFollowsToggles ==
    \A c \in Clusters, r \in RuleIDs :
        \A m \in GetTogglesForRules(c, AllRuleIDs) :
            LET I == RuleTouchedBy(c, r)
            IN  IF I = {} \/ thist[LastOf(I)].op = "delete"
                THEN r \notin DOMAIN m
                ELSE /\ r \in DOMAIN m
                     /\ m[r] = (thist[LastOf(I)].ruleToggle = RuleToggleDisable)

\* the log holds a record with the key of the message
Recorded(rows, msg) ==
    \E r \in rows : ConsumerErrorKey(r) = <<msg.Topic, msg.Partition, msg.Offset>>

\* C21: the consumer error log is append-only with (topic, partition, offset)
\* as its key: no step updates or deletes a record, and a recordError whose
\* key is already in the log fails with the constraint violation and leaves
\* the log as it was.
C21_ConsumerErrorAppendOnly ==
    [][ /\ consumer_error \subseteq consumer_error'
        /\ (nerrors' # nerrors /\ Recorded(consumer_error, cresult'.msg)) =>
               /\ cresult'.err \in {"constraint", "dberror"}
               /\ consumer_error' = consumer_error
        /\ (nerrors' # nerrors /\ cresult'.err = "nil") =>
               /\ ~Recorded(consumer_error, cresult'.msg)
               /\ Recorded(consumer_error', cresult'.msg) ]_vars

\* C21 witness: a record with another message was turned down for its key
C21_Witness ==
    /\ nerrors > 0
    /\ cresult.err = "constraint"
    /\ \E r \in consumer_error :
           /\ ConsumerErrorKey(r) =
                  <<cresult.msg.Topic, cresult.msg.Partition, cresult.msg.Offset>>
           /\ r.message # cresult.msg.Value

\* C22: readReportsForClusters with an empty list of clusters returns an empty
\* mapping without an error and without running a query, and for every list
\* the IN predicate has as many placeholders as there are bound parameters.
C22_EmptyListRunsNoQuery ==
    lastBatch.made =>
        /\ Len(lastBatch.inClausule) = Len(lastBatch.args)
        /\ lastBatch.clusterNames = <<>> =>
               /\ ~lastBatch.executed
               /\ lastBatch.err = "nil"
               /\ DOMAIN lastBatch.reports = {}

\* C23: after any sequence of writes and report deletions, readLatestOffset
\* returns 0 when no report row is stored, and otherwise the offset of a
\* stored row (put there by an accepted write) that no stored row exceeds.
C23_LatestOffsetIsMaxStored ==
    LET offset == GetLatestKafkaOffset(report)
    IN  /\ report = {} => offset = 0
        /\ report # {} =>
               /\ \E r \in report :
                      /\ r.kafka_offset = offset
                      /\ \E i \in 1 .. Len(hist) :
                             /\ Accepted(hist[i])
                             /\ hist[i].args.clusterName = r.cluster
                             /\ hist[i].args.kafkaOffset = offset
               /\ \A r \in report : r.kafka_offset <= offset

\* C23 witness: the row with the greatest offset written so far was deleted,
\* and the offset read is that of the row that is left
C23_Witness ==
    /\ Quiet
    /\ lastDeleted.kind # None
    /\ report # {}
    /\ \E i \in 1 .. Len(hist) :
           Accepted(hist[i]) /\ hist[i].args.kafkaOffset > GetLatestKafkaOffset(report)

\* Init has returned nil
InitSucceeded == initErr = "nil" /\ initRows = {}

\* C24: after Init succeeds on a store that holds report rows, the cache maps
\* every stored cluster to the last_checked_at of its row, so that a write for
\* the cluster whose checkedAt is not newer is rejected on the fast path.
C24_InitWarmsCache ==
    InitSucceeded =>
        \A r \in report :
            /\ clustersLastChecked[r.cluster] =
                   [exists |-> TRUE, time |-> r.last_checked_at]
            /\ \A t \in Times :
                   t <= r.last_checked_at => IsOldReport(r.cluster, t)

\* the driver is neither of the two the write path supports
UnsupportedBackend == dbDriverType \notin {DBDriverSQLite3, DBDriverPostgres}

\* C25: when the backend is not one of the two supported dialects, no
\* transaction is ever begun, and every writeReport returns the
\* unsupported-backend error and leaves the report table, the rule-hit table
\* and the cache as it found them.
C25_UnsupportedBackendFailsFirst ==
    UnsupportedBackend =>
        /\ \A p \in Procs : ~tx[p].open /\ pc[p] \in {"idle", "cacheCheck", "begin"}
        /\ \A i \in 1 .. Len(hist) :
               hist[i].err = "unsupported" /\ hist[i].fault = None
        /\ (Quiet /\ Len(hist) >= 1 /\ SameInstance(1)) =>
               TablesAsBefore(1) /\ CacheAsBefore(1)

\* C25 witness: a call on an unsupported backend has returned
C25_Witness ==
    /\ UnsupportedBackend
    /\ Quiet
    /\ SameInstance(1)
    /\ Len(hist) >= 1
    /\ Last(hist).outcome = "unsupported"
    /\ Last(hist).args.rules # <<>>

\* the faults of the database, as the history records them
DatabaseFaults == {"begin", "recheck", "delete", "insert", "upsert", "commit"}

\* two calls have returned, and they were for two clusters
TwoClustersWritten ==
    /\ AllReturned
    /\ Len(hist) = 2
    /\ hist[1].args.clusterName # hist[2].args.clusterName
    /\ ~UnsupportedBackend

\* C26: writes for different clusters are independent: when a write for
\* cluster A and a write for cluster B run in any interleaving, each write the
\* database does not fail is accepted, and its report row and its rule hits
\* are stored, as if it had run alone.
C26_OtherClusterIndependent ==
    TwoClustersWritten =>
        \A i \in 1 .. 2 :
            hist[i].fault \notin DatabaseFaults =>
                /\ Accepted(hist[i])
                /\ \E r \in report :
                       ModuloReportedAt({r}) =
                           ModuloReportedAt({ReportRow(hist[i].args, 0)})
                /\ StoredHits(hist[i].args.clusterName) = WrittenHits(hist[i].args)

\* the transaction of the call was committed (with or without a write in it)
TxCommitted(w) == w.outcome \in {"committed", "noop"}

\* C27: writeReport returns success only if its transaction committed: a call
\* whose commit failed returns an error.
C27_SuccessOnlyIfCommitted ==
    \A i \in 1 .. Len(hist) :
        /\ hist[i].err = "nil" => TxCommitted(hist[i])
        /\ hist[i].outcome = "commitFailed" => hist[i].err # "nil"

\* the last two calls: an accepted write, then an accepted write for the same
\* cluster under another org and with a later checkedAt
OtherOrgFollowsAccepted ==
    /\ Quiet
    /\ Len(hist) >= 2
    /\ Accepted(hist[Len(hist) - 1])
    /\ Accepted(Last(hist))
    /\ Last(hist).args.orgID # hist[Len(hist) - 1].args.orgID
    /\ Last(hist).args.clusterName = hist[Len(hist) - 1].args.clusterName
    /\ Last(hist).args.lastCheckedTime > hist[Len(hist) - 1].args.lastCheckedTime

\* C28: the rule hits of a cluster are replaced as a whole also across orgs:
\* after accepted writes (O1, C, hits1, t1) and (O2, C, hits2, t2), t2 > t1,
\* O1 # O2, readReportByClusterOnly(C) returns the rule hits of hits2 only and
\* no rule-hit row of org O1 is left for C.
C28_OtherOrgReplacesRuleHits ==
    OtherOrgFollowsAccepted =>
        LET a == Last(hist).args
            got == ReadReportForClusterByClusterName(a.clusterName)
        IN  /\ got.err = "nil"
            /\ HitKeys(got.report) = ListKeys(a.rules)
            /\ RuleHitsOf(hist[Len(hist) - 1].args.orgID, a.clusterName) = {}

\* C29: with calls that do not overlap, the stored last_checked_at of a
\* cluster never decreases across a writeReport call, whatever the cache holds
\* when the call starts and whatever org the call carries.
C29_LastCheckedAtNeverDecreases ==
    (Quiet /\ Len(hist) >= 1 /\ pre[1].taken) =>
        \A r \in pre[1].report :
            \E q \in report :
                q.cluster = r.cluster /\ q.last_checked_at >= r.last_checked_at

\* C30: the two dialects are observationally equivalent: after the same
\* sequence of writeReport calls a store on SQLite and a store on PostgreSQL
\* returned the same results and hold the same report rows and rule-hit rows,
\* and readReport returns the same from both.
C30_DialectsEquivalent ==
    /\ sresult.err[DBDriverSQLite3] = sresult.err[DBDriverPostgres]
    /\ stores[DBDriverSQLite3].report = stores[DBDriverPostgres].report
    /\ stores[DBDriverSQLite3].rule_hit = stores[DBDriverPostgres].rule_hit
    /\ \A o \in Orgs, c \in Clusters :
           ReadReportForClusterOn(stores[DBDriverSQLite3], o, c) =
               ReadReportForClusterOn(stores[DBDriverPostgres], o, c)

\* the template data a rule-hit list supplies for a (rule, errorKey) pair
SuppliedTemplateData(rules, k) ==
    { rules[i].TemplateData :
        i \in { j \in 1 .. Len(rules) : <<rules[j].Module, rules[j].ErrorKey>> = k } }

\* C31: after an accepted writeReport, the stored template data of each row
\* (org, cluster, rule, errorKey) of the write is template data the write
\* supplied for that rule hit, also when the upsert met a row of the key (a
\* pair repeated in ruleHits).
C31_TemplateDataAsSupplied ==
    LastAccepted =>
        LET a == Last(hist).args
        IN  \A k \in ListKeys(a.rules) :
                \E h \in RuleHitsOf(a.orgID, a.clusterName) :
                    /\ <<h.rule_fqdn, h.error_key>> = k
                    /\ h.template_data \in SuppliedTemplateData(a.rules, k)

\* the elements of a list
Elements(seq) == { seq[i] : i \in 1 .. Len(seq) }

\* C32: the statement text of getTogglesForRuleSet depends on the number of
\* rule identifiers only: two calls with lists of the same length send the
\* same text, and the identifiers travel as bound parameters.
C32_QueryTextIndependentOfRuleIDs ==
    Len(tqueries) = 2 =>
        /\ Len(tqueries[1].ruleIDs) = Len(tqueries[2].ruleIDs) =>
               tqueries[1].text = tqueries[2].text
        /\ \A i \in 1 .. 2 :
               /\ Elements(tqueries[i].ruleIDs) \subseteq Elements(tqueries[i].params)
               /\ Elements(tqueries[i].ruleIDs) \cap Elements(tqueries[i].text) = {}

\* C33: when a query of readReport fails for a reason other than an absent
\* row, readReport returns an error that is not the not-found error, and never
\* a successful report.
C33_ReadFailureIsAnError ==
    (rres.made /\ rres.fault # None) => rres.err \notin {"nil", "NotFound"}

\* C34: in every state where no writeReport is in flight, each cache entry
\* (cluster C, time t) is backed by a stored report row of C whose
\* last_checked_at is at least t.
C34_CacheBackedByStoredRow ==
    AllReturned =>
        \A c \in Clusters :
            CacheHas(c) =>
                \E r \in report :
                    r.cluster = c /\ r.last_checked_at >= clustersLastChecked[c].time

\* the last two calls were for one cluster: the first was accepted, its
\* report was deleted before the second started, no database fault hit the
\* second and nothing was deleted since it started
WriteFollowsDeletion ==
    /\ Quiet
    /\ Len(hist) >= 2
    /\ Accepted(hist[Len(hist) - 1])
    /\ Last(hist).args.clusterName = hist[Len(hist) - 1].args.clusterName
    /\ pre[1].taken
    /\ \A r \in pre[1].report : r.cluster # Last(hist).args.clusterName
    /\ Last(hist).fault = None
    /\ lastDeleted = NoDelete

\* C35: after the report of cluster C was deleted (by cluster or by org), a
\* following writeReport for C is accepted and stored whatever its checkedAt,
\* also when it is equal to or earlier than that of the deleted report.
C35_WriteAfterDeletionAccepted ==
    WriteFollowsDeletion =>
        /\ Accepted(Last(hist))
        /\ \E r \in report :
               ModuloReportedAt({r}) = ModuloReportedAt({ReportRow(Last(hist).args, 0)})

\* C36: in every committed state each stored rule-hit row belongs to a stored
\* report row with the same org and the same cluster.
C36_RuleHitOwnedByReport ==
    AllReturned =>
        \A h \in rule_hit :
            \E r \in report : r.org_id = h.org_id /\ r.cluster = h.cluster_id

\* the rule hits and the lastCheckedAt are those of one committed write for
\* the org and the cluster
OfOneWrite(orgID, clusterName, rules, lastChecked) ==
    \E i \in 1 .. Len(hist) :
        /\ hist[i].outcome = "committed"
        /\ hist[i].args.orgID = orgID
        /\ hist[i].args.clusterName = clusterName
        /\ Timestamp(hist[i].args.lastCheckedTime) = lastChecked
        /\ ListKeys(hist[i].args.rules) = HitKeys(rules)

\* C37: a readReport that runs while reports of the same cluster are written
\* returns a rule-hit list and a lastCheckedAt that belong to the same
\* accepted write.
C37_ReadPairsOneWrite ==
    (rres.made /\ rres.err = "nil" /\ rres.fault = None) =>
        OfOneWrite(rres.orgID, rres.clusterName, rres.report, rres.lastChecked)

\* the call of p returns from finishTransaction in this step
FinishReturns(p) == pc[p] = "finish" /\ pc'[p] = "idle"

\* the tables after this step are those before it with the write set of the
\* transaction of p applied
TxApplied(p) ==
    /\ report' = Committed(report, tx[p].repDel, tx[p].repIns)
    /\ rule_hit' = Committed(rule_hit, tx[p].rhDel, tx[p].rhIns)

\* C38: every transaction begun by writeReport is finished before the call
\* returns: no caller between two calls holds an open transaction; a call
\* whose closure returned an error leaves the tables as they were (rolled
\* back), and a call whose closure returned nil, the stale no-op included,
\* has its write set applied (committed) unless the commit itself failed.
C38_TransactionFinishedOnReturn ==
    /\ [](\A p \in Procs : pc[p] = "idle" => ~tx[p].open)
    /\ [][\A p \in Procs :
            FinishReturns(p) =>
                /\ ~tx'[p].open
                /\ err[p] # "nil" => UNCHANGED <<report, rule_hit>>
                /\ (err[p] = "nil" /\ fault'[p] # "commit") => TxApplied(p)]_vars

\* a call whose upsert of the report failed, after its transaction had
\* deleted rule hits, has returned and holds no open transaction
C38_Witness ==
    /\ Quiet
    /\ Len(hist) > 0
    /\ Last(hist).outcome = "rolledBack"
    /\ Last(hist).fault = "upsert"
    /\ pre[1].taken
    /\ RuleHitsOf(Last(hist).args.orgID, Last(hist).args.clusterName) # {}
    /\ ~tx[1].open

\* C39: the single lookup and the batch lookup agree: for every cluster and
\* every rule that has toggle rows, each of the two has one possible answer,
\* given by the stored rows alone, and the flag the batch lookup gives for the
\* rule is the disabled flag of the row the single lookup returns.
C39_LookupsAgree ==
    \A c \in Clusters, r \in RuleIDs :
        TogglesOf(c, r) # {} =>
            /\ Cardinality(GetFromClusterRuleToggle(c, r)) = 1
            /\ Cardinality(GetTogglesForRules(c, <<r>>)) = 1
            /\ \A g \in GetFromClusterRuleToggle(c, r) :
               \A m \in GetTogglesForRules(c, <<r>>) :
                   /\ g.err = "nil"
                   /\ r \in DOMAIN m
                   /\ m[r] = (g.toggle.Disabled = RuleToggleDisable)
====
